---------------------------- MODULE Spec2Model ----------------------------
(***************************************************************************)
(* A model of boost::math::quadrature::detail::tanh_sinh_detail<Real,      *)
(* Policy> (include/boost/math/quadrature/detail/tanh_sinh_detail.hpp):    *)
(* the constructor with its two init() overloads, the cached table of      *)
(* abscissa and weight rows with its lazy extension, and integrate().      *)
(*                                                                         *)
(* Real is instantiated twice, as the class does through                   *)
(* initializer_selector: selector 1 is IEEE binary32 (float), selector 0   *)
(* is IEEE binary64 (double).                                              *)
(*                                                                         *)
(* How the numbers of the program are written here.                        *)
(*  - A grid parameter (pos, h, m_t_max, m_t_crossover) is an integer      *)
(*    count of ticks, one tick being 2^-8.                                 *)
(*  - A stored abscissa, a threshold and an argument passed to the         *)
(*    integrand is a "Real code": 0 for zero and, for v = s*m*10^e with    *)
(*    1 <= m < 10, the integer s*((e+400)*10^6 + round(m*10^5)).  The      *)
(*    code keeps six significant digits, the sign and the order of the     *)
(*    values, so <, > and fabs on codes are those of the values.  IEEE     *)
(*    -0.0 and +0.0 both have code 0 (they compare equal in the program).  *)
(*  - A weight is an integer count of 2^-16; an estimate (I0, I1, L1_I0,   *)
(*    L1_I1, err) is an integer count of 2^-24, so that eight halvings are *)
(*    exact.  The three non-finite values are PosInf, NegInf and NaN.      *)
(*  - An integrand value is an integer, or PosInf, NegInf or NaN.          *)
(*  - A size_t is an integer modulo SizeMod.                               *)
(***************************************************************************)
EXTENDS Integers, Sequences, FiniteSets

\* ------------------------------------------------------------ bounds
\* The largest max_refinements a caller passes to the constructor under selector 0.
MaxRefinementsBound == 5
\* The largest initial_commit a caller passes to the constructor under selector 0.
InitialCommitBound == 2
\* The number of integrate calls made on one engine.
MaxCalls == 2
\* The number of iterations of the constructor's extension loop that are followed.
MaxCtorLoop == 2

\* ------------------------------------------------------- Real arithmetic
Pow10(n) == 10 ^ n
RExpOf(c) == (c \div Pow10(6)) - 400
RMantOf(c) == c % Pow10(6)
RZero == 0
ROne == 400 * Pow10(6) + Pow10(5)
RHalf == 399 * Pow10(6) + 5 * Pow10(5)
RAbs(c) == IF c < 0 THEN -c ELSE c
RNeg(c) == -c

\* The magnitude c (a code > 0 of a value <= 1) in millionths, rounded half up.
RMicro(c) ==
  IF c = 0 THEN 0
  ELSE LET e == RExpOf(c)
           m == RMantOf(c)
       IN  IF e >= 0 THEN m * Pow10(e + 1)
           ELSE IF e < -7 THEN 0
           ELSE (m + (Pow10(-1 - e) \div 2)) \div Pow10(-1 - e)

\* The code of u millionths, for 0 <= u < 10^7.
RFromMicro(u) ==
  IF u = 0 THEN 0
  ELSE IF u >= Pow10(6) THEN 400 * Pow10(6) + ((u + 5) \div 10)
  ELSE IF u >= Pow10(5) THEN 399 * Pow10(6) + u
  ELSE IF u >= Pow10(4) THEN 398 * Pow10(6) + u * 10
  ELSE IF u >= Pow10(3) THEN 397 * Pow10(6) + u * Pow10(2)
  ELSE IF u >= Pow10(2) THEN 396 * Pow10(6) + u * Pow10(3)
  ELSE IF u >= 10 THEN 395 * Pow10(6) + u * Pow10(4)
  ELSE 394 * Pow10(6) + u * Pow10(5)

\* 1 + xc for -1 <= xc <= 1 (the code's "x = 1 + xc").
RAddOne(xc) ==
  IF xc <= 0 THEN RFromMicro(Pow10(6) - RMicro(RAbs(xc)))
  ELSE RFromMicro(Pow10(6) + RMicro(xc))
\* x - 1 for -1 <= x <= 1 (the code's "xc = x - 1").
RSubOne(x) ==
  IF x >= 0 THEN RNeg(RFromMicro(Pow10(6) - RMicro(x)))
  ELSE RNeg(RFromMicro(Pow10(6) + RMicro(RAbs(x))))

\* Non-finite values of an estimate or of the integrand.
PosInf == 2 ^ 30
NegInf == -(2 ^ 30)
NaN == 2 ^ 30 + 1
IsFinite(v) == v > NegInf /\ v < PosInf
EAbs(v) == IF v = NaN THEN NaN ELSE IF v = NegInf THEN PosInf ELSE IF v < 0 THEN -v ELSE v
EAdd(a, b) ==
  IF a = NaN \/ b = NaN THEN NaN
  ELSE IF a = PosInf THEN (IF b = NegInf THEN NaN ELSE PosInf)
  ELSE IF a = NegInf THEN (IF b = PosInf THEN NaN ELSE NegInf)
  ELSE IF b = PosInf \/ b = NegInf THEN b
  ELSE a + b
ESub(a, b) == EAdd(a, IF b = NaN THEN NaN ELSE IF b = PosInf THEN NegInf
                        ELSE IF b = NegInf THEN PosInf ELSE -b)
\* v * m for a finite multiplier m >= 0.
EMul(v, m) ==
  IF v = NaN THEN NaN
  ELSE IF v = PosInf \/ v = NegInf THEN (IF m = 0 THEN NaN ELSE v)
  ELSE v * m
\* half<Real>() * v
EHalf(v) == IF IsFinite(v) THEN (IF v >= 0 THEN v \div 2 ELSE -((-v) \div 2)) ELSE v

\* size_t arithmetic
SizeMod == 2 ^ 30
SizeSub(a, b) == (a - b + SizeMod) % SizeMod
SizeAdd(a, b) == (a + b) % SizeMod

\* Ticks of the grid parameter.
Tick == 2 ^ 8
\* ldexp(Real(1), -row); below one tick it is rounded up to one tick.
Ldexp1(row) == IF row <= 8 THEN 2 ^ (8 - row) ELSE 1

\* The literal rows assigned to m_abscissas by init(mpl::int_<1>), one Real code per
\* literal (levels 0..7).
SeedAbscissas ==
  <<
    <<
      0, -398486320, -395225228, -386429416, -363116765
    >>,
    <<
      -399325729, -397248514, -392111243, -377537849
    >>,
    <<
      399377210, -399140431, -398129594, -396311736, -393795263, -389471436, -382541522,
      -371204030
    >>,
    <<
      399194357, -399460853, -399219393, -398851207, -398260331, -397594449, -396934804,
      -395906153, -394468396, -393107218, -390857295, -388176783, -384637488, -380244294,
      -374525155, -367278947
    >>,
    <<
      398979239, 399287880, 399461254, -399389726, -399268982, -399176683, -399110109,
      -398648391, -398358878, -398185452, -397887301, -397389133, -397154579, -396548566,
      -396171178, -395461290, -395105180, -394198286, -393301106, -392357609, -391321280,
      -390210267, -388960607, -387291903, -385558612, -383632821, -381395646, -379126098,
      -376187249, -373117003, -369274099, -365211228
    >>,
    <<
      398490560, 399146418, 399241566, 399333142, 399419952, -399498987, -399424415,
      -399356823, -399296450, -399243306, -399197201, -399157781, -399124565, -398969867,
      -398744314, -398562652, -398418640, -398306333, -398220238, -398155412, -398107516,
      -397728300, -397482397, -397311968, -397196666, -397120647, -396718888, -396415250,
      -396232028, -396125135, -395649801, -395324069, -395154801, -394706212, -394306755,
      -394126453, -393492994, -393181106, -392624459, -392201255, -391603587, -391167664,
      -390429212, -390100722, -389215447, -388417539, -387728474, -387113639, -386157355,
      -385191922, -384204496, -383188696, -382149387, -381100469, -379567993, -378266910,
      -377103018, -375322448, -373807478, -372159465, -370244572, -368286592, -366252168,
      -364163551
    >>,
    <<
      398245398, 398735251, 399122229, 399170468, 399218063, 399264845, 399310652, 399355334,
      399398754, 399440790, 399481332, -399479712, -399442419, -399406850, -399373050,
      -399341049, -399310862, -399282491, -399255922, -399231131, -399208085, -399186736,
      -399167034, -399148916, -399132317, -399117165, -399103386, -398909017, -398796339,
      -398695031, -398604298, -398523358, -398451445, -398387814, -398331746, -398282555,
      -398239584, -398202217, -398169872, -398142006, -398118116, -397977376, -397804434,
      -397658449, -397535894, -397433592, -397348695, -397278665, -397221261, -397174508,
      -397136685, -397106297, -396820551, -396628599, -396477762, -396360169, -396269238,
      -396199519, -396146527, -396106613, -395768299, -395548194, -395387152, -395270536,
      -395186987, -395127787, -394863155, -394576037, -394379665, -394247038, -394158619,
      -394100459, -393627293, -393386011, -393233977, -393139629, -392819952, -392473573,
      -392268868, -392149969, -391821354, -391441437, -391232676, -391120202, -390608223,
      -390301246, -390145944, -389691116, -389319668, -389144312, -388635368, -388272595,
      -388113873, -387462773, -387182799, -386701205, -386260961, -385941336, -385328793,
      -385111086, -384362660, -384114279, -383347190, -383101578, -382285853, -381772783,
      -381200442, -380498157, -380118467, -379269198, -378583667, -378120566, -377236911,
      -376442134, -375782384, -375131053, -374207435, -373309697, -372435320, -371574996,
      -370712272, -369825784, -368894154, -367902280, -366846603, -365736927, -364593663,
      -363441528
    >>,
    <<
      398122714, 398368023, 398612979, 398857348, 399110090, 399134340, 399158462, 399182434,
      399206234, 399229842, 399253235, 399276394, 399299300, 399321933, 399344276, 399366312,
      399388024, 399409397, 399430417, 399451069, 399471342, 399491223, -399489298, -399470230,
      -399451583, -399433363, -399415578, -399398232, -399381332, -399364880, -399348879,
      -399333332, -399318239, -399303599, -399289414, -399275680, -399262396, -399249558,
      -399237164, -399225208, -399213685, -399202590, -399191917, -399181659, -399171808,
      -399162358, -399153300, -399144627, -399136328, -399128396, -399120821, -399113595,
      -399106706, -399100146, -398939056, -398879738, -398823412, -398769977, -398719335,
      -398671387, -398626033, -398583175, -398542717, -398504563, -398468618, -398434789,
      -398402985, -398373115, -398345092, -398318830, -398294244, -398271254, -398249778,
      -398229741, -398211066, -398193682, -398177518, -398162506, -398148581, -398135680,
      -398123742, -398112710, -398102527, -397931407, -397844996, -397765554, -397692617,
      -397625743, -397564516, -397508537, -397457430, -397410840, -397368431, -397329886,
      -397294906, -397263212, -397234541, -397208645, -397185296, -397164278, -397145389,
      -397128445, -397113270, -396997059, -396876024, -396768224, -396672394, -396587366,
      -396512071, -396445525, -396386831, -396335167, -396289787, -396250011, -396215220,
      -396184858, -396158419, -396135449, -396115538, -395983192, -395834641, -395706791,
      -395597029, -395503031, -395422737, -395354327, -395296196, -395246930, -395205291,
      -395170195, -395140698, -395115976, -394953176, -394781047, -394638059, -394519640,
      -394421872, -394341407, -394275395, -394221416, -394177422, -394141687, -394112758,
      -393894218, -393706622, -393556360, -393436440, -393341088, -393265556, -393205952,
      -393159100, -393122417, -392938107, -392715935, -392544097, -392411749, -392310250,
      -392232747, -392173828, -392129237, -391956437, -391704520, -391516495, -391376827,
      -391273583, -391197638, -391142054, -391101579, -390722578, -390511282, -390359827,
      -390251854, -390175301, -390121330, -389834939, -389571227, -389388497, -389262634,
      -389176465, -389117833, -388781868, -388515484, -388337650, -388219707, -388142005,
      -387911580, -387581131, -387367868, -387231207, -387144262, -386893497, -386549257,
      -386335079, -386202841, -386121828, -385725885, -385429006, -385251465, -385146169,
      -384842433, -384481352, -384272632, -384153044, -383851379, -383469280, -383256260,
      -383138613, -382742575, -382393931, -382206908, -382107583, -381553667, -381281983,
      -381142101, -380708424, -380349335, -380170360, -379821471, -379391597, -379184515,
      -378859187, -378395301, -378179667, -377806541, -377357534, -377156478, -376676004,
      -376288214, -376121244, -375503142, -375205929, -374831079, -374330652, -374129660,
      -373501009, -373190718, -372715057, -372263991, -371959466, -371343208, -371120799,
      -370418246, -370142415, -369476783, -369156895, -368507344, -368161169, -367502836,
      -367154032, -366463139, -366136647, -365395501, -365112259, -364312385, -363851954,
      -363227647
    >>
  >>

\* The literal rows assigned to m_weights by init(mpl::int_<1>), in weight units.
SeedWeights ==
  <<
    <<
      102944, 15075, 17, 0, 0
    >>,
    <<
      63306, 1202, 0, 0
    >>,
    <<
      91070, 34805, 5006, 190, 1, 0, 0, 0
    >>,
    <<
      99830, 78215, 48329, 23623, 9006, 2567, 507, 62, 4, 0, 0, 0, 0, 0, 0, 0
    >>,
    <<
      102156, 96077, 85031, 70886, 55717, 41314, 28890, 19021, 11752, 6779, 3623, 1778, 792,
      316, 111, 34, 9, 2, 0, 0, 0, 0, 0, 0, 0, 0, 0, 0, 0, 0, 0, 0
    >>,
    <<
      102746, 101180, 98122, 93717, 88164, 81704, 74598, 67112, 59499, 51986, 44766, 37990,
      31769, 26174, 21239, 16968, 13338, 10311, 7831, 5839, 4270, 3058, 2143, 1467, 979, 636,
      402, 246, 146, 83, 46, 24, 12, 6, 3, 1, 1, 0, 0, 0, 0, 0, 0, 0, 0, 0, 0, 0, 0, 0, 0, 0,
      0, 0, 0, 0, 0, 0, 0, 0, 0, 0, 0, 0
    >>,
    <<
      102894, 102500, 101715, 100551, 99020, 97140, 94935, 92428, 89647, 86624, 83390, 79977,
      76420, 72752, 69005, 65211, 61401, 57603, 53844, 50147, 46534, 43025, 39635, 36379,
      33268, 30310, 27512, 24878, 22410, 20109, 17974, 16001, 14187, 12527, 11014, 9642, 8403,
      7290, 6295, 5410, 4626, 3936, 3331, 2804, 2347, 1954, 1616, 1329, 1086, 881, 710, 569,
      452, 356, 279, 217, 167, 127, 96, 72, 54, 39, 29, 21, 15, 10, 7, 5, 3, 2, 1, 1, 1, 0, 0,
      0, 0, 0, 0, 0, 0, 0, 0, 0, 0, 0, 0, 0, 0, 0, 0, 0, 0, 0, 0, 0, 0, 0, 0, 0, 0, 0, 0, 0, 0,
      0, 0, 0, 0, 0, 0, 0, 0, 0, 0, 0, 0, 0, 0, 0, 0, 0, 0, 0, 0, 0, 0, 0
    >>,
    <<
      102931, 102833, 102635, 102340, 101948, 101459, 100877, 100202, 99436, 98582, 97642,
      96619, 95515, 94335, 93081, 91757, 90366, 88913, 87401, 85834, 84216, 82552, 80845,
      79100, 77321, 75512, 73677, 71821, 69947, 68059, 66162, 64259, 62353, 60449, 58550,
      56659, 54778, 52913, 51064, 49235, 47428, 45647, 43892, 42166, 40471, 38808, 37180,
      35587, 34031, 32514, 31034, 29595, 28196, 26838, 25521, 24245, 23012, 21819, 20669,
      19560, 18493, 17466, 16479, 15533, 14626, 13758, 12928, 12135, 11379, 10658, 9972, 9320,
      8701, 8113, 7557, 7031, 6533, 6064, 5622, 5205, 4813, 4445, 4100, 3777, 3475, 3192, 2929,
      2684, 2455, 2243, 2046, 1864, 1696, 1540, 1396, 1264, 1143, 1031, 929, 836, 750, 672,
      602, 537, 479, 426, 379, 336, 297, 262, 231, 203, 178, 156, 136, 119, 103, 90, 78, 67,
      58, 50, 43, 36, 31, 26, 22, 19, 16, 13, 11, 9, 8, 7, 5, 5, 4, 3, 3, 2, 2, 1, 1, 1, 1, 1,
      0, 0, 0, 0, 0, 0, 0, 0, 0, 0, 0, 0, 0, 0, 0, 0, 0, 0, 0, 0, 0, 0, 0, 0, 0, 0, 0, 0, 0, 0,
      0, 0, 0, 0, 0, 0, 0, 0, 0, 0, 0, 0, 0, 0, 0, 0, 0, 0, 0, 0, 0, 0, 0, 0, 0, 0, 0, 0, 0, 0,
      0, 0, 0, 0, 0, 0, 0, 0, 0, 0, 0, 0, 0, 0, 0, 0, 0, 0, 0, 0, 0, 0, 0, 0, 0, 0, 0, 0, 0, 0,
      0, 0, 0, 0, 0, 0, 0, 0, 0, 0, 0, 0, 0, 0, 0, 0, 0, 0, 0, 0
    >>
  >>

\* tanh(half_pi * sinh(t)) in binary64 at t = n/64, n = 0..448 (entry n+1).
DoubleAbscissaTable ==
  <<
    0, 398245398, 398490560, 398735251, 398979239, 399122229, 399146418, 399170468, 399194357,
    399218063, 399241566, 399264845, 399287880, 399310652, 399333142, 399355334, 399377210,
    399398754, 399419952, 399440790, 399461254, 399481332, 399501013, 399520288, 399539147,
    399557581, 399575584, 399593150, 399610274, 399626950, 399643177, 399658951, 399674271,
    399689138, 399703550, 399717509, 399731018, 399744078, 399756694, 399768869, 399780607,
    399791915, 399802799, 399813264, 399823317, 399832966, 399842219, 399851084, 399859569,
    399867683, 399875435, 399882835, 399889891, 399896614, 399903013, 399909098, 399914879,
    399920366, 399925569, 399930497, 399935161, 399939570, 399943735, 399947664, 399951368,
    399954855, 399958136, 399961219, 399964112, 399966825, 399969367, 399971745, 399973967,
    399976042, 399977976, 399979778, 399981455, 399983013, 399984459, 399985799, 399987041,
    399988188, 399989248, 399990226, 399991127, 399991956, 399992717, 399993416, 399994056,
    399994641, 399995176, 399995664, 399996109, 399996513, 399996880, 399997213, 399997515,
    399997787, 399998033, 399998255, 399998454, 399998633, 399998794, 399998937, 399999065,
    399999179, 399999281, 399999371, 399999451, 399999522, 399999585, 399999640, 399999688,
    399999731, 399999768, 399999800, 399999829, 399999853, 399999875, 399999893, 399999909,
    399999923, 399999935, 399999945, 399999954, 399999961, 399999968, 399999973, 399999977,
    399999981, 399999985, 399999987, 399999989, 399999991, 399999993, 399999994, 399999995,
    399999996, 399999997, 399999998, 399999998, 399999998, 399999999, 399999999, 399999999,
    399999999, 400100000, 400100000, 400100000, 400100000, 400100000, 400100000, 400100000,
    400100000, 400100000, 400100000, 400100000, 400100000, 400100000, 400100000, 400100000,
    400100000, 400100000, 400100000, 400100000, 400100000, 400100000, 400100000, 400100000,
    400100000, 400100000, 400100000, 400100000, 400100000, 400100000, 400100000, 400100000,
    400100000, 400100000, 400100000, 400100000, 400100000, 400100000, 400100000, 400100000,
    400100000, 400100000, 400100000, 400100000, 400100000, 400100000, 400100000, 400100000,
    400100000, 400100000, 400100000, 400100000, 400100000, 400100000, 400100000, 400100000,
    400100000, 400100000, 400100000, 400100000, 400100000, 400100000, 400100000, 400100000,
    400100000, 400100000, 400100000, 400100000, 400100000, 400100000, 400100000, 400100000,
    400100000, 400100000, 400100000, 400100000, 400100000, 400100000, 400100000, 400100000,
    400100000, 400100000, 400100000, 400100000, 400100000, 400100000, 400100000, 400100000,
    400100000, 400100000, 400100000, 400100000, 400100000, 400100000, 400100000, 400100000,
    400100000, 400100000, 400100000, 400100000, 400100000, 400100000, 400100000, 400100000,
    400100000, 400100000, 400100000, 400100000, 400100000, 400100000, 400100000, 400100000,
    400100000, 400100000, 400100000, 400100000, 400100000, 400100000, 400100000, 400100000,
    400100000, 400100000, 400100000, 400100000, 400100000, 400100000, 400100000, 400100000,
    400100000, 400100000, 400100000, 400100000, 400100000, 400100000, 400100000, 400100000,
    400100000, 400100000, 400100000, 400100000, 400100000, 400100000, 400100000, 400100000,
    400100000, 400100000, 400100000, 400100000, 400100000, 400100000, 400100000, 400100000,
    400100000, 400100000, 400100000, 400100000, 400100000, 400100000, 400100000, 400100000,
    400100000, 400100000, 400100000, 400100000, 400100000, 400100000, 400100000, 400100000,
    400100000, 400100000, 400100000, 400100000, 400100000, 400100000, 400100000, 400100000,
    400100000, 400100000, 400100000, 400100000, 400100000, 400100000, 400100000, 400100000,
    400100000, 400100000, 400100000, 400100000, 400100000, 400100000, 400100000, 400100000,
    400100000, 400100000, 400100000, 400100000, 400100000, 400100000, 400100000, 400100000,
    400100000, 400100000, 400100000, 400100000, 400100000, 400100000, 400100000, 400100000,
    400100000, 400100000, 400100000, 400100000, 400100000, 400100000, 400100000, 400100000,
    400100000, 400100000, 400100000, 400100000, 400100000, 400100000, 400100000, 400100000,
    400100000, 400100000, 400100000, 400100000, 400100000, 400100000, 400100000, 400100000,
    400100000, 400100000, 400100000, 400100000, 400100000, 400100000, 400100000, 400100000,
    400100000, 400100000, 400100000, 400100000, 400100000, 400100000, 400100000, 400100000,
    400100000, 400100000, 400100000, 400100000, 400100000, 400100000, 400100000, 400100000,
    400100000, 400100000, 400100000, 400100000, 400100000, 400100000, 400100000, 400100000,
    400100000, 400100000, 400100000, 400100000, 400100000, 400100000, 400100000, 400100000,
    400100000, 400100000, 400100000, 400100000, 400100000, 400100000, 400100000, 400100000,
    400100000, 400100000, 400100000, 400100000, 400100000, 400100000, 400100000, 400100000,
    400100000, 400100000, 400100000, 400100000, 400100000, 400100000, 400100000, 400100000,
    400100000, 400100000, 400100000, 400100000, 400100000, 400100000, 400100000, 400100000
  >>

\* 1 / (exp(u2) * cosh(u2)), u2 = half_pi * sinh(t), in binary64 at t = n/64, n = 0..448.
\* From t = 6.125 on exp(u2) * cosh(u2) overflows to infinity and the quotient is 0.
DoubleComplementTable ==
  <<
    400100000, 399975460, 399950944, 399926475, 399902076, 399877771, 399853582, 399829532,
    399805643, 399781937, 399758434, 399735155, 399712120, 399689348, 399666858, 399644666,
    399622790, 399601246, 399580048, 399559210, 399538746, 399518668, 399498987, 399479712,
    399460853, 399442419, 399424416, 399406850, 399389726, 399373050, 399356823, 399341049,
    399325729, 399310862, 399296450, 399282491, 399268982, 399255922, 399243306, 399231131,
    399219393, 399208085, 399197201, 399186736, 399176683, 399167034, 399157781, 399148916,
    399140431, 399132317, 399124565, 399117165, 399110109, 399103386, 398969867, 398909017,
    398851207, 398796339, 398744314, 398695031, 398648391, 398604298, 398562652, 398523358,
    398486320, 398451445, 398418640, 398387814, 398358878, 398331746, 398306333, 398282555,
    398260331, 398239584, 398220238, 398202217, 398185452, 398169872, 398155412, 398142006,
    398129594, 398118116, 398107516, 397977376, 397887301, 397804434, 397728300, 397658449,
    397594449, 397535894, 397482397, 397433592, 397389133, 397348695, 397311968, 397278665,
    397248514, 397221261, 397196666, 397174508, 397154579, 397136685, 397120647, 397106297,
    396934804, 396820551, 396718888, 396628599, 396548566, 396477762, 396415250, 396360169,
    396311736, 396269238, 396232028, 396199519, 396171178, 396146527, 396125135, 396106613,
    395906153, 395768299, 395649801, 395548194, 395461290, 395387152, 395324069, 395270536,
    395225228, 395186987, 395154801, 395127787, 395105180, 394863155, 394706212, 394576037,
    394468396, 394379665, 394306755, 394247038, 394198286, 394158619, 394126453, 394100459,
    393795263, 393627293, 393492994, 393386011, 393301106, 393233977, 393181106, 393139629,
    393107218, 392819952, 392624459, 392473573, 392357609, 392268868, 392201255, 392149969,
    392111243, 391821354, 391603587, 391441437, 391321280, 391232676, 391167664, 391120202,
    390857295, 390608223, 390429212, 390301246, 390210267, 390145944, 390100722, 389691116,
    389471436, 389319668, 389215447, 389144312, 388960607, 388635368, 388417539, 388272595,
    388176783, 388113873, 387728474, 387462773, 387291903, 387182799, 387113639, 386701205,
    386429416, 386260961, 386157355, 385941336, 385558612, 385328793, 385191922, 385111086,
    384637488, 384362660, 384204496, 384114279, 383632821, 383347190, 383188696, 383101578,
    382541522, 382285853, 382149387, 381772783, 381395646, 381200442, 381100469, 380498157,
    380244294, 380118467, 379567993, 379269198, 379126098, 378583667, 378266910, 378120566,
    377537849, 377236911, 377103018, 376442134, 376187249, 375782384, 375322448, 375131053,
    374525155, 374207435, 373807478, 373309697, 373117003, 372435320, 372159465, 371574996,
    371204030, 370712272, 370244572, 369825784, 369274099, 368894154, 368286592, 367902280,
    367278947, 366846603, 366252168, 365736927, 365211228, 364593663, 364163551, 363441528,
    363116765, 362302396, 361766666, 361190220, 360461722, 360109604, 359254358, 358576870,
    358127811, 357276540, 356584095, 356120387, 355242036, 354474476, 353906587, 353168768,
    352305969, 351539997, 350927357, 350154902, 349251556, 348396995, 347608571, 346905767,
    346130827, 345183295, 344248981, 343327742, 342417864, 341515769, 340615986, 339711472,
    338794302, 337856689, 336892141, 335896556, 334868982, 333811869, 332730722, 331633219,
    330527998, 329423373, 328326256, 327241473, 326171544, 325116896, 323763579, 322477807,
    321286220, 320164020, 318898552, 317470249, 316234930, 315111959, 313508587, 312220054,
    310906191, 309354892, 308132074, 306466694, 305156454, 303497191, 302149649, 300426251,
    299114795, 297292055, 295701292, 294158793, 292338734, 290680103, 289128400, 287227723,
    285379032, 283591472, 281864457, 280118210, 278151082, 276180283, 274200637, 272208020,
    270200703, 268179997, 266149877, 264115734, 261827800, 259547777, 257334938, 255189002,
    252983018, 250470643, 248207153, 245837113, 243310160, 241105221, 238326388, 235924412,
    233238712, 230561217, 228119947, 225232704, 222409173, 219651072, 216936021, 214121390,
    211141780, 208148891, 205140351, 202118554, 198895817, 195604456, 192363561, 189194568,
    185924799, 182389668, 179145274, 175478292, 172138790, 168354256, 164793772, 161155813,
    157267382, 153400281, 149521635, 145590460, 141579257, 137491396, 133359647, 129226567,
    125122565, 120567997, 116224944, 111759413, 107218004, 102530794, 98109329, 93189998, 0, 0,
    0, 0, 0, 0, 0, 0, 0, 0, 0, 0, 0, 0, 0, 0, 0, 0, 0, 0, 0, 0, 0, 0, 0, 0, 0, 0, 0, 0, 0, 0,
    0, 0, 0, 0, 0, 0, 0, 0, 0, 0, 0, 0, 0, 0, 0, 0, 0, 0, 0, 0, 0, 0, 0, 0, 0
  >>

\* half_pi * cosh(t) / (cs * cs), cs = cosh(half_pi * sinh(t)), in binary64 at t = n/64,
\* n = 0..448, in weight units.
DoubleWeightTable ==
  <<
    102944, 102894, 102746, 102500, 102156, 101715, 101180, 100551, 99830, 99020, 98122, 97140,
    96077, 94935, 93717, 92428, 91070, 89647, 88164, 86624, 85031, 83390, 81704, 79977, 78215,
    76420, 74598, 72752, 70886, 69005, 67112, 65211, 63306, 61401, 59499, 57603, 55717, 53844,
    51986, 50147, 48329, 46534, 44766, 43025, 41314, 39635, 37990, 36379, 34805, 33268, 31769,
    30310, 28890, 27512, 26174, 24878, 23623, 22410, 21239, 20109, 19021, 17974, 16968, 16001,
    15075, 14187, 13338, 12527, 11752, 11014, 10311, 9642, 9006, 8403, 7831, 7290, 6779, 6295,
    5839, 5410, 5006, 4626, 4270, 3936, 3623, 3331, 3058, 2804, 2567, 2347, 2143, 1954, 1778,
    1616, 1467, 1329, 1202, 1086, 979, 881, 792, 710, 636, 569, 507, 452, 402, 356, 316, 279,
    246, 217, 190, 167, 146, 127, 111, 96, 83, 72, 62, 54, 46, 39, 34, 29, 24, 21, 17, 15, 12,
    10, 9, 7, 6, 5, 4, 3, 3, 2, 2, 1, 1, 1, 1, 1, 1, 0, 0, 0, 0, 0, 0, 0, 0, 0, 0, 0, 0, 0, 0,
    0, 0, 0, 0, 0, 0, 0, 0, 0, 0, 0, 0, 0, 0, 0, 0, 0, 0, 0, 0, 0, 0, 0, 0, 0, 0, 0, 0, 0, 0,
    0, 0, 0, 0, 0, 0, 0, 0, 0, 0, 0, 0, 0, 0, 0, 0, 0, 0, 0, 0, 0, 0, 0, 0, 0, 0, 0, 0, 0, 0,
    0, 0, 0, 0, 0, 0, 0, 0, 0, 0, 0, 0, 0, 0, 0, 0, 0, 0, 0, 0, 0, 0, 0, 0, 0, 0, 0, 0, 0, 0,
    0, 0, 0, 0, 0, 0, 0, 0, 0, 0, 0, 0, 0, 0, 0, 0, 0, 0, 0, 0, 0, 0, 0, 0, 0, 0, 0, 0, 0, 0,
    0, 0, 0, 0, 0, 0, 0, 0, 0, 0, 0, 0, 0, 0, 0, 0, 0, 0, 0, 0, 0, 0, 0, 0, 0, 0, 0, 0, 0, 0,
    0, 0, 0, 0, 0, 0, 0, 0, 0, 0, 0, 0, 0, 0, 0, 0, 0, 0, 0, 0, 0, 0, 0, 0, 0, 0, 0, 0, 0, 0,
    0, 0, 0, 0, 0, 0, 0, 0, 0, 0, 0, 0, 0, 0, 0, 0, 0, 0, 0, 0, 0, 0, 0, 0, 0, 0, 0, 0, 0, 0,
    0, 0, 0, 0, 0, 0, 0, 0, 0, 0, 0, 0, 0, 0, 0, 0, 0, 0, 0, 0, 0, 0, 0, 0, 0, 0, 0, 0, 0, 0,
    0, 0, 0, 0, 0, 0, 0, 0, 0, 0, 0, 0, 0, 0, 0, 0, 0, 0, 0, 0, 0, 0, 0, 0, 0, 0, 0, 0, 0, 0,
    0, 0, 0, 0, 0, 0, 0, 0, 0, 0, 0, 0, 0, 0, 0, 0, 0, 0
  >>

\* tanh(half_pi * sinh(t)) in binary32 at t = (2i-1)/256, i = 1..512 (entry i).
FloatAbscissaTable ==
  <<
    397613586, 398184061, 398306719, 398429304, 398551786, 398674135, 398796323, 398918321,
    399104010, 399116163, 399128288, 399140383, 399152444, 399164470, 399176456, 399188401,
    399200302, 399212155, 399223959, 399235711, 399247408, 399259047, 399270627, 399282145,
    399293598, 399304985, 399316301, 399327547, 399338719, 399349815, 399360833, 399371771,
    399382628, 399393400, 399404087, 399414686, 399425196, 399435615, 399445941, 399456173,
    399466310, 399476349, 399486290, 399496131, 399505871, 399515508, 399525042, 399534472,
    399543795, 399553013, 399562123, 399571124, 399580017, 399588800, 399597473, 399606035,
    399614485, 399622823, 399631049, 399639162, 399647163, 399655050, 399662824, 399670484,
    399678031, 399685464, 399692783, 399699989, 399707082, 399714062, 399720929, 399727683,
    399734325, 399740855, 399747274, 399753582, 399759779, 399765866, 399771844, 399777713,
    399783475, 399789129, 399794676, 399800117, 399805454, 399810686, 399815815, 399820842,
    399825767, 399830591, 399835316, 399839943, 399844472, 399848904, 399853241, 399857483,
    399861632, 399865689, 399869655, 399873531, 399877318, 399881018, 399884631, 399888159,
    399891603, 399894964, 399898244, 399901443, 399904564, 399907606, 399910572, 399913462,
    399916278, 399919021, 399921693, 399924294, 399926826, 399929290, 399931687, 399934019,
    399936287, 399938491, 399940634, 399942716, 399944739, 399946703, 399948611, 399950463,
    399952260, 399954003, 399955695, 399957335, 399958925, 399960466, 399961959, 399963406,
    399964807, 399966164, 399967476, 399968747, 399969976, 399971165, 399972314, 399973425,
    399974499, 399975536, 399976538, 399977505, 399978439, 399979340, 399980209, 399981047,
    399981855, 399982634, 399983385, 399984107, 399984804, 399985474, 399986119, 399986739,
    399987336, 399987910, 399988461, 399988991, 399989500, 399989989, 399990458, 399990909,
    399991341, 399991755, 399992152, 399992533, 399992897, 399993247, 399993581, 399993901,
    399994207, 399994500, 399994779, 399995047, 399995302, 399995546, 399995779, 399996001,
    399996213, 399996416, 399996608, 399996792, 399996967, 399997133, 399997292, 399997442,
    399997586, 399997722, 399997851, 399997974, 399998091, 399998202, 399998307, 399998406,
    399998501, 399998590, 399998675, 399998755, 399998831, 399998903, 399998970, 399999035,
    399999095, 399999152, 399999206, 399999257, 399999305, 399999350, 399999392, 399999432,
    399999470, 399999505, 399999539, 399999570, 399999599, 399999627, 399999653, 399999677,
    399999699, 399999721, 399999741, 399999759, 399999777, 399999793, 399999808, 399999822,
    399999835, 399999848, 399999859, 399999870, 399999880, 399999889, 399999898, 399999906,
    399999913, 399999920, 399999926, 399999932, 399999938, 399999943, 399999947, 399999952,
    399999956, 399999960, 399999963, 399999966, 399999969, 399999972, 399999974, 399999976,
    399999978, 399999980, 399999982, 399999984, 399999985, 399999987, 399999988, 399999989,
    399999990, 399999991, 399999992, 399999993, 399999993, 399999994, 399999995, 399999995,
    399999996, 399999996, 399999996, 399999997, 399999997, 399999997, 399999998, 399999998,
    399999998, 399999998, 399999999, 399999999, 399999999, 399999999, 399999999, 399999999,
    399999999, 399999999, 399999999, 399999999, 400100000, 400100000, 400100000, 400100000,
    400100000, 400100000, 400100000, 400100000, 400100000, 400100000, 400100000, 400100000,
    400100000, 400100000, 400100000, 400100000, 400100000, 400100000, 400100000, 400100000,
    400100000, 400100000, 400100000, 400100000, 400100000, 400100000, 400100000, 400100000,
    400100000, 400100000, 400100000, 400100000, 400100000, 400100000, 400100000, 400100000,
    400100000, 400100000, 400100000, 400100000, 400100000, 400100000, 400100000, 400100000,
    400100000, 400100000, 400100000, 400100000, 400100000, 400100000, 400100000, 400100000,
    400100000, 400100000, 400100000, 400100000, 400100000, 400100000, 400100000, 400100000,
    400100000, 400100000, 400100000, 400100000, 400100000, 400100000, 400100000, 400100000,
    400100000, 400100000, 400100000, 400100000, 400100000, 400100000, 400100000, 400100000,
    400100000, 400100000, 400100000, 400100000, 400100000, 400100000, 400100000, 400100000,
    400100000, 400100000, 400100000, 400100000, 400100000, 400100000, 400100000, 400100000,
    400100000, 400100000, 400100000, 400100000, 400100000, 400100000, 400100000, 400100000,
    400100000, 400100000, 400100000, 400100000, 400100000, 400100000, 400100000, 400100000,
    400100000, 400100000, 400100000, 400100000, 400100000, 400100000, 400100000, 400100000,
    400100000, 400100000, 400100000, 400100000, 400100000, 400100000, 400100000, 400100000,
    400100000, 400100000, 400100000, 400100000, 400100000, 400100000, 400100000, 400100000,
    400100000, 400100000, 400100000, 400100000, 400100000, 400100000, 400100000, 400100000,
    400100000, 400100000, 400100000, 400100000, 400100000, 400100000, 400100000, 400100000,
    400100000, 400100000, 400100000, 400100000, 400100000, 400100000, 400100000, 400100000,
    400100000, 400100000, 400100000, 400100000, 400100000, 400100000, 400100000, 400100000,
    400100000, 400100000, 400100000, 400100000, 400100000, 400100000, 400100000, 400100000,
    400100000, 400100000, 400100000, 400100000, 400100000, 400100000, 400100000, 400100000,
    400100000, 400100000, 400100000, 400100000, 400100000, 400100000, 400100000, 400100000,
    400100000, 400100000, 400100000, 400100000, 400100000, 400100000, 400100000, 400100000,
    400100000, 400100000, 400100000, 400100000, 400100000, 400100000, 400100000, 400100000,
    400100000, 400100000, 400100000, 400100000, 400100000, 400100000, 400100000, 400100000,
    400100000, 400100000, 400100000, 400100000, 400100000, 400100000, 400100000, 400100000
  >>

\* 1 / (exp(u2) * cosh(u2)) in binary32 at t = (2i-1)/256, i = 1..512.
FloatComplementTable ==
  <<
    399993864, 399981594, 399969328, 399957070, 399944821, 399932586, 399920368, 399908168,
    399895990, 399883837, 399871712, 399859617, 399847556, 399835530, 399823544, 399811599,
    399799698, 399787845, 399776041, 399764289, 399752592, 399740952, 399729373, 399717855,
    399706402, 399695016, 399683699, 399672453, 399661281, 399650185, 399639167, 399628229,
    399617373, 399606600, 399595913, 399585314, 399574804, 399564385, 399554059, 399543827,
    399533690, 399523651, 399513710, 399503869, 399494129, 399484492, 399474958, 399465529,
    399456205, 399446987, 399437877, 399428876, 399419983, 399411200, 399402527, 399393965,
    399385515, 399377177, 399368951, 399360838, 399352837, 399344950, 399337176, 399329516,
    399321969, 399314536, 399307217, 399300011, 399292918, 399285938, 399279071, 399272317,
    399265675, 399259145, 399252726, 399246418, 399240221, 399234134, 399228156, 399222287,
    399216525, 399210871, 399205324, 399199883, 399194546, 399189314, 399184185, 399179158,
    399174233, 399169409, 399164684, 399160057, 399155528, 399151096, 399146759, 399142517,
    399138368, 399134311, 399130345, 399126469, 399122682, 399118982, 399115369, 399111841,
    399108397, 399105036, 399101756, 398985566, 398954364, 398923940, 398894283, 398865380,
    398837218, 398809786, 398783070, 398757059, 398731740, 398707100, 398683127, 398659809,
    398637133, 398615088, 398593661, 398572839, 398552612, 398532966, 398513891, 398495373,
    398477402, 398459966, 398443053, 398426652, 398410751, 398395340, 398380406, 398365940,
    398351930, 398338365, 398325235, 398312530, 398300238, 398288350, 398276856, 398265746,
    398255009, 398244637, 398234619, 398224947, 398215611, 398206602, 398197911, 398189529,
    398181448, 398173659, 398166155, 398158925, 398151964, 398145262, 398138813, 398132608,
    398126640, 398120902, 398115386, 398110087, 398104996, 398100108, 397954155, 397909124,
    397865927, 397824501, 397784787, 397746727, 397710266, 397675347, 397641916, 397609923,
    397579316, 397550044, 397522061, 397495318, 397469770, 397445373, 397422083, 397399859,
    397378659, 397358444, 397339176, 397320818, 397303332, 397286685, 397270842, 397255771,
    397241439, 397227816, 397214872, 397202578, 397190907, 397179831, 397169325, 397159363,
    397149922, 397140978, 397132508, 397124492, 397116907, 397109734, 397102954, 396965486,
    396904989, 396847884, 396794004, 396743191, 396695295, 396650167, 396607671, 396567670,
    396530037, 396494651, 396461392, 396430149, 396400814, 396373286, 396347466, 396323261,
    396300581, 396279343, 396259464, 396240868, 396223482, 396207235, 396192062, 396177899,
    396164687, 396152368, 396140890, 396130199, 396120250, 396110994, 396102390, 395943958,
    395869728, 395800845, 395736961, 395677750, 395622905, 395572136, 395525169, 395481748,
    395441629, 395404587, 395370407, 395338889, 395309845, 395283099, 395258485, 395235850,
    395215047, 395195943, 395178410, 395162330, 395147594, 395134099, 395121750, 395110456,
    395100137, 394907134, 394821153, 394742758, 394671335, 394606314, 394547165, 394493401,
    394444569, 394400252, 394360064, 394323650, 394290682, 394260858, 394233901, 394209554,
    394187584, 394167775, 394149930, 394133868, 394119423, 394106443, 393947904, 393843385,
    393749718, 393665852, 393590830, 393523780, 393463910, 393410500, 393362898, 393320512,
    393282807, 393249297, 393219544, 393193154, 393169768, 393149065, 393130756, 393114580,
    393100304, 392877155, 392766280, 392668721, 392582972, 392507680, 392441640, 392383777,
    392333134, 392288858, 392250191, 392216459, 392187066, 392161482, 392139238, 392119921,
    392103164, 391886456, 391760810, 391652201, 391558428, 391477565, 391407916, 391348001,
    391296520, 391252341, 391214476, 391182064, 391154353, 391130693, 391110517, 390933336,
    390787188, 390663050, 390557744, 390468533, 390393058, 390329293, 390275492, 390230163,
    390192023, 390159979, 390133093, 390110567, 389917209, 389759771, 389628433, 389519034,
    389428041, 389352473, 389289806, 389237919, 389195022, 389159612, 389130428, 389106412,
    388866814, 388704965, 388572411, 388464029, 388375553, 388303447, 388244778, 388197122,
    388158476, 388127191, 388101907, 387815077, 387650786, 387518700, 387412692, 387327765,
    387259847, 387205630, 387162428, 387128068, 387100789, 386791719, 386620745, 386485770,
    386379417, 386295778, 386230128, 386178701, 386138491, 386107116, 385826829, 385636941,
    385489663, 385375669, 385287616, 385219743, 385167535, 385127460, 384967642, 384733027,
    384554095, 384417926, 384314528, 384236185, 384176959, 384132286, 383986659, 383734222,
    383545107, 383403763, 383298367, 383219964, 383161776, 383118695, 382868766, 382634324,
    382462011, 382335673, 382243274, 382175866, 382126814, 381912096, 381654324, 381468188,
    381334125, 381237821, 381168826, 381119525, 380843936, 380594264, 380417304, 380292232,
    380204076, 380142113, 379986845, 379683318, 379471788, 379324798, 379222952, 379152592,
    379104126, 378708418, 378480519, 378324947, 378219070, 378147236, 377986494, 377658891,
    377438694, 377291156, 377192616, 377127016, 376834847, 376546930, 376357120, 376232407,
    376150738, 375974372, 375627685, 375402961, 375257797, 375164351, 375104408, 374660937,
    374416892, 374262013, 374164075, 374102369, 373636342, 373394089, 373243147, 373149452,
    372915116, 372558191, 372339164, 372205276, 372123755, 371743127, 371444457, 371264756,
    371157072, 370928063, 370546088, 370319997, 370186728, 370108504, 369627808, 369361699,
    369207488, 369118508, 368673901, 368381527, 368215039, 368120658, 367673955, 367374735,
    367207405, 367114261, 366626541, 366341946, 366185740, 366100410, 365540192, 365289212,
    365154083, 364816864, 364430910, 364226175, 364118117, 363613712, 363317240, 363163143
  >>

\* half_pi * cosh(t) / (cs * cs) in binary32 at t = (2i-1)/256, i = 1..512, in weight units.
FloatWeightTable ==
  <<
    102941, 102916, 102866, 102792, 102694, 102570, 102423, 102251, 102055, 101834, 101590,
    101323, 101031, 100717, 100379, 100019, 99636, 99230, 98803, 98355, 97885, 97394, 96882,
    96350, 95798, 95227, 94637, 94028, 93401, 92756, 92094, 91415, 90720, 90009, 89282, 88540,
    87784, 87014, 86231, 85434, 84625, 83805, 82972, 82129, 81276, 80413, 79540, 78659, 77769,
    76872, 75967, 75056, 74138, 73215, 72287, 71354, 70417, 69476, 68532, 67586, 66637, 65687,
    64735, 63783, 62830, 61877, 60925, 59974, 59024, 58076, 57130, 56187, 55247, 54311, 53378,
    52449, 51524, 50605, 49690, 48781, 47878, 46981, 46090, 45205, 44328, 43457, 42594, 41739,
    40891, 40052, 39221, 38398, 37584, 36778, 35982, 35195, 34417, 33648, 32889, 32140, 31401,
    30671, 29951, 29241, 28542, 27853, 27173, 26505, 25846, 25198, 24560, 23933, 23316, 22710,
    22114, 21528, 20953, 20388, 19834, 19289, 18756, 18232, 17719, 17215, 16722, 16239, 15766,
    15303, 14849, 14405, 13971, 13547, 13132, 12726, 12330, 11942, 11564, 11195, 10835, 10483,
    10140, 9806, 9480, 9162, 8852, 8551, 8257, 7971, 7693, 7423, 7160, 6904, 6655, 6413, 6179,
    5951, 5730, 5515, 5307, 5105, 4909, 4719, 4535, 4357, 4184, 4018, 3856, 3700, 3549, 3402,
    3261, 3125, 2993, 2866, 2743, 2625, 2511, 2401, 2295, 2193, 2094, 2000, 1908, 1821, 1736,
    1655, 1578, 1503, 1431, 1362, 1296, 1233, 1172, 1114, 1058, 1005, 954, 905, 858, 813, 771,
    730, 691, 654, 619, 585, 553, 522, 493, 465, 439, 414, 390, 367, 346, 325, 306, 288, 270,
    254, 238, 224, 210, 197, 184, 172, 161, 151, 141, 132, 123, 115, 107, 100, 93, 87, 80, 75,
    70, 65, 60, 56, 52, 48, 44, 41, 38, 35, 32, 30, 28, 25, 23, 22, 20, 18, 17, 15, 14, 13, 12,
    11, 10, 9, 8, 8, 7, 6, 6, 5, 5, 4, 4, 4, 3, 3, 3, 2, 2, 2, 2, 2, 1, 1, 1, 1, 1, 1, 1, 1, 1,
    1, 0, 0, 0, 0, 0, 0, 0, 0, 0, 0, 0, 0, 0, 0, 0, 0, 0, 0, 0, 0, 0, 0, 0, 0, 0, 0, 0, 0, 0,
    0, 0, 0, 0, 0, 0, 0, 0, 0, 0, 0, 0, 0, 0, 0, 0, 0, 0, 0, 0, 0, 0, 0, 0, 0, 0, 0, 0, 0, 0,
    0, 0, 0, 0, 0, 0, 0, 0, 0, 0, 0, 0, 0, 0, 0, 0, 0, 0, 0, 0, 0, 0, 0, 0, 0, 0, 0, 0, 0, 0,
    0, 0, 0, 0, 0, 0, 0, 0, 0, 0, 0, 0, 0, 0, 0, 0, 0, 0, 0, 0, 0, 0, 0, 0, 0, 0, 0, 0, 0, 0,
    0, 0, 0, 0, 0, 0, 0, 0, 0, 0, 0, 0, 0, 0, 0, 0, 0, 0, 0, 0, 0, 0, 0, 0, 0, 0, 0, 0, 0, 0,
    0, 0, 0, 0, 0, 0, 0, 0, 0, 0, 0, 0, 0, 0, 0, 0, 0, 0, 0, 0, 0, 0, 0, 0, 0, 0, 0, 0, 0, 0,
    0, 0, 0, 0, 0, 0, 0, 0, 0, 0, 0, 0, 0, 0, 0, 0, 0, 0, 0, 0, 0, 0, 0, 0, 0, 0, 0, 0, 0, 0,
    0, 0, 0, 0, 0, 0, 0, 0, 0, 0, 0
  >>

\* tanh(half_pi * sinh(t)) in binary32 at t = n/128, n = 0..512 (entry n+1): the grid
\* parameters of the levels 0..7.
FloatGridAbscissaTable ==
  <<
    0, 398122714, 398245398, 398368023, 398490560, 398612979, 398735251, 398857348, 398979239,
    399110090, 399122229, 399134340, 399146418, 399158462, 399170468, 399182434, 399194357,
    399206234, 399218063, 399229842, 399241566, 399253235, 399264845, 399276394, 399287880,
    399299300, 399310652, 399321933, 399333142, 399344276, 399355334, 399366312, 399377210,
    399388024, 399398754, 399409397, 399419952, 399430417, 399440790, 399451069, 399461254,
    399471342, 399481332, 399491223, 399501013, 399510702, 399520288, 399529770, 399539147,
    399548417, 399557581, 399566637, 399575584, 399584422, 399593150, 399601768, 399610274,
    399618668, 399626950, 399635120, 399643177, 399651121, 399658951, 399666668, 399674271,
    399681761, 399689138, 399696401, 399703550, 399710586, 399717509, 399724320, 399731018,
    399737604, 399744078, 399750441, 399756694, 399762836, 399768869, 399774792, 399780607,
    399786315, 399791915, 399797410, 399802799, 399808083, 399813264, 399818341, 399823317,
    399828192, 399832966, 399837642, 399842219, 399846700, 399851084, 399855373, 399859569,
    399863672, 399867683, 399871604, 399875435, 399879179, 399882835, 399886406, 399889891,
    399893294, 399896614, 399899854, 399903013, 399906094, 399909098, 399912026, 399914879,
    399917659, 399920366, 399923002, 399925569, 399928066, 399930497, 399932861, 399935161,
    399937397, 399939570, 399941683, 399943735, 399945728, 399947664, 399949544, 399951368,
    399953138, 399954856, 399956521, 399958136, 399959702, 399961219, 399962689, 399964112,
    399965491, 399966825, 399968117, 399969367, 399970576, 399971745, 399972875, 399973967,
    399975022, 399976042, 399977026, 399977976, 399978893, 399979778, 399980632, 399981455,
    399982248, 399983013, 399983749, 399984459, 399985142, 399985799, 399986432, 399987041,
    399987626, 399988188, 399988729, 399989248, 399989747, 399990226, 399990686, 399991127,
    399991550, 399991956, 399992344, 399992717, 399993074, 399993416, 399993743, 399994056,
    399994355, 399994641, 399994915, 399995176, 399995426, 399995664, 399995892, 399996109,
    399996316, 399996513, 399996701, 399996880, 399997051, 399997213, 399997368, 399997515,
    399997655, 399997787, 399997914, 399998033, 399998147, 399998255, 399998357, 399998454,
    399998546, 399998633, 399998716, 399998794, 399998867, 399998937, 399999003, 399999065,
    399999124, 399999179, 399999232, 399999281, 399999328, 399999371, 399999413, 399999451,
    399999488, 399999522, 399999554, 399999585, 399999613, 399999640, 399999665, 399999688,
    399999710, 399999731, 399999750, 399999768, 399999785, 399999801, 399999815, 399999829,
    399999842, 399999853, 399999865, 399999875, 399999884, 399999893, 399999902, 399999909,
    399999917, 399999923, 399999929, 399999935, 399999940, 399999945, 399999950, 399999954,
    399999958, 399999961, 399999965, 399999968, 399999970, 399999973, 399999975, 399999977,
    399999979, 399999981, 399999983, 399999985, 399999986, 399999987, 399999988, 399999990,
    399999990, 399999991, 399999992, 399999993, 399999994, 399999994, 399999995, 399999995,
    399999996, 399999996, 399999997, 399999997, 399999997, 399999998, 399999998, 399999998,
    399999998, 399999998, 399999999, 399999999, 399999999, 399999999, 399999999, 399999999,
    399999999, 399999999, 399999999, 400100000, 400100000, 400100000, 400100000, 400100000,
    400100000, 400100000, 400100000, 400100000, 400100000, 400100000, 400100000, 400100000,
    400100000, 400100000, 400100000, 400100000, 400100000, 400100000, 400100000, 400100000,
    400100000, 400100000, 400100000, 400100000, 400100000, 400100000, 400100000, 400100000,
    400100000, 400100000, 400100000, 400100000, 400100000, 400100000, 400100000, 400100000,
    400100000, 400100000, 400100000, 400100000, 400100000, 400100000, 400100000, 400100000,
    400100000, 400100000, 400100000, 400100000, 400100000, 400100000, 400100000, 400100000,
    400100000, 400100000, 400100000, 400100000, 400100000, 400100000, 400100000, 400100000,
    400100000, 400100000, 400100000, 400100000, 400100000, 400100000, 400100000, 400100000,
    400100000, 400100000, 400100000, 400100000, 400100000, 400100000, 400100000, 400100000,
    400100000, 400100000, 400100000, 400100000, 400100000, 400100000, 400100000, 400100000,
    400100000, 400100000, 400100000, 400100000, 400100000, 400100000, 400100000, 400100000,
    400100000, 400100000, 400100000, 400100000, 400100000, 400100000, 400100000, 400100000,
    400100000, 400100000, 400100000, 400100000, 400100000, 400100000, 400100000, 400100000,
    400100000, 400100000, 400100000, 400100000, 400100000, 400100000, 400100000, 400100000,
    400100000, 400100000, 400100000, 400100000, 400100000, 400100000, 400100000, 400100000,
    400100000, 400100000, 400100000, 400100000, 400100000, 400100000, 400100000, 400100000,
    400100000, 400100000, 400100000, 400100000, 400100000, 400100000, 400100000, 400100000,
    400100000, 400100000, 400100000, 400100000, 400100000, 400100000, 400100000, 400100000,
    400100000, 400100000, 400100000, 400100000, 400100000, 400100000, 400100000, 400100000,
    400100000, 400100000, 400100000, 400100000, 400100000, 400100000, 400100000, 400100000,
    400100000, 400100000, 400100000, 400100000, 400100000, 400100000, 400100000, 400100000,
    400100000, 400100000, 400100000, 400100000, 400100000, 400100000, 400100000, 400100000,
    400100000, 400100000, 400100000, 400100000, 400100000, 400100000, 400100000, 400100000,
    400100000, 400100000, 400100000, 400100000, 400100000, 400100000, 400100000, 400100000,
    400100000, 400100000, 400100000, 400100000, 400100000, 400100000, 400100000, 400100000,
    400100000, 400100000, 400100000, 400100000, 400100000, 400100000, 400100000, 400100000,
    400100000, 400100000, 400100000, 400100000, 400100000, 400100000, 400100000, 400100000
  >>

\* 1 / (exp(u) * cosh(u)), u = half_pi * sinh(t), in binary32 at t = n/128, n = 0..512
\* (entry n+1).
FloatGridComplementTable ==
  <<
    400100000, 399987729, 399975460, 399963198, 399950944, 399938702, 399926475, 399914265,
    399902076, 399889910, 399877771, 399865660, 399853582, 399841538, 399829532, 399817566,
    399805643, 399793766, 399781937, 399770158, 399758434, 399746765, 399735155, 399723606,
    399712120, 399700700, 399689348, 399678067, 399666858, 399655724, 399644666, 399633688,
    399622790, 399611976, 399601246, 399590603, 399580048, 399569583, 399559210, 399548931,
    399538746, 399528658, 399518668, 399508777, 399498987, 399489298, 399479712, 399470230,
    399460853, 399451583, 399442419, 399433363, 399424415, 399415578, 399406850, 399398232,
    399389726, 399381332, 399373050, 399364880, 399356823, 399348879, 399341049, 399333332,
    399325729, 399318239, 399310862, 399303599, 399296450, 399289414, 399282491, 399275680,
    399268982, 399262396, 399255922, 399249558, 399243306, 399237164, 399231131, 399225208,
    399219393, 399213685, 399208084, 399202590, 399197201, 399191917, 399186736, 399181659,
    399176683, 399171808, 399167034, 399162358, 399157781, 399153300, 399148916, 399144627,
    399140431, 399136328, 399132317, 399128396, 399124565, 399120821, 399117165, 399113594,
    399110109, 399106706, 399103386, 399100146, 398969867, 398939055, 398909017, 398879738,
    398851207, 398823412, 398796339, 398769978, 398744314, 398719336, 398695031, 398671387,
    398648391, 398626033, 398604298, 398583175, 398562652, 398542717, 398523358, 398504563,
    398486320, 398468618, 398451445, 398434789, 398418640, 398402985, 398387814, 398373115,
    398358878, 398345092, 398331746, 398318830, 398306333, 398294244, 398282554, 398271253,
    398260331, 398249778, 398239584, 398229741, 398220238, 398211066, 398202217, 398193682,
    398185452, 398177518, 398169872, 398162506, 398155412, 398148581, 398142006, 398135680,
    398129594, 398123742, 398118116, 398112710, 398107516, 398102527, 397977376, 397931407,
    397887301, 397844997, 397804434, 397765554, 397728300, 397692617, 397658449, 397625743,
    397594449, 397564516, 397535894, 397508537, 397482397, 397457430, 397433592, 397410840,
    397389133, 397368431, 397348694, 397329886, 397311968, 397294906, 397278665, 397263212,
    397248514, 397234541, 397221261, 397208645, 397196666, 397185296, 397174508, 397164278,
    397154579, 397145389, 397136685, 397128445, 397120647, 397113270, 397106296, 396997059,
    396934803, 396876024, 396820551, 396768224, 396718888, 396672394, 396628599, 396587366,
    396548566, 396512071, 396477762, 396445525, 396415250, 396386831, 396360169, 396335167,
    396311736, 396289787, 396269238, 396250010, 396232028, 396215220, 396199519, 396184858,
    396171178, 396158419, 396146527, 396135449, 396125135, 396115538, 396106613, 395983192,
    395906153, 395834641, 395768298, 395706791, 395649800, 395597029, 395548193, 395503031,
    395461290, 395422737, 395387152, 395354327, 395324069, 395296195, 395270535, 395246930,
    395225228, 395205291, 395186987, 395170195, 395154801, 395140698, 395127787, 395115976,
    395105180, 394953176, 394863155, 394781047, 394706212, 394638059, 394576038, 394519639,
    394468395, 394421871, 394379665, 394341407, 394306755, 394275395, 394247038, 394221416,
    394198286, 394177422, 394158619, 394141687, 394126453, 394112758, 394100459, 393894219,
    393795262, 393706622, 393627293, 393556360, 393492994, 393436439, 393386011, 393341088,
    393301106, 393265555, 393233976, 393205952, 393181106, 393159100, 393139629, 393122417,
    393107218, 392938108, 392819952, 392715934, 392624459, 392544097, 392473573, 392411749,
    392357609, 392310250, 392268868, 392232747, 392201255, 392173828, 392149969, 392129237,
    392111243, 391956436, 391821354, 391704519, 391603586, 391516494, 391441436, 391376827,
    391321280, 391273582, 391232676, 391197638, 391167664, 391142054, 391120202, 391101579,
    390857294, 390722577, 390608222, 390511282, 390429212, 390359827, 390301245, 390251854,
    390210267, 390175301, 390145944, 390121330, 390100722, 389834939, 389691115, 389571227,
    389471435, 389388497, 389319667, 389262634, 389215447, 389176465, 389144312, 389117833,
    388960607, 388781866, 388635366, 388515483, 388417540, 388337650, 388272595, 388219708,
    388176783, 388142004, 388113874, 387911578, 387728472, 387581130, 387462772, 387367867,
    387291902, 387231207, 387182799, 387144262, 387113638, 386893496, 386701205, 386549256,
    386429416, 386335078, 386260960, 386202841, 386157355, 386121828, 385941334, 385725885,
    385558612, 385429006, 385328792, 385251465, 385191922, 385146169, 385111086, 384842433,
    384637488, 384481351, 384362659, 384272631, 384204495, 384153044, 384114279, 383851378,
    383632818, 383469278, 383347190, 383256260, 383188695, 383138613, 383101578, 382742573,
    382541522, 382393931, 382285853, 382206908, 382149387, 382107583, 381772784, 381553666,
    381395645, 381281983, 381200443, 381142100, 381100469, 380708424, 380498156, 380349335,
    380244293, 380170359, 380118466, 379821470, 379567992, 379391598, 379269198, 379184515,
    379126098, 378859187, 378583666, 378395300, 378266910, 378179666, 378120566, 377806540,
    377537847, 377357533, 377236910, 377156478, 377103018, 376676003, 376442134, 376288212,
    376187249, 376121244, 375782384, 375503141, 375322448, 375205929, 375131053, 374831078,
    374525155, 374330652, 374207433, 374129660, 373807477, 373501007, 373309696, 373190717,
    373117003, 372715057, 372435318, 372263989, 372159465, 371959465, 371574994, 371343208,
    371204030, 371120798, 370712271, 370418247, 370244571, 370142414, 369825779, 369476785,
    369274097, 369156894, 368894151, 368507343, 368286591, 368161170, 367902282, 367502836,
    367278945, 367154032, 366846603, 366463136, 366252168, 366136647, 365736926, 365395500,
    365211228, 365112258, 364593663, 364312383, 364163551, 363851951, 363441524, 363227647,
    363116765
  >>

\* ------------------------------------------------------- transform math
\* The number of rows init(mpl::int_<1>) assigns from literals.
SeedRows == Len(SeedAbscissas)
SeedFirstComplements == <<1, 0, 1, 1, 3, 5, 11, 22>>

\* abscissa_at_t, weight_at_t, abscissa_complement_at_t for the Real of selector sel,
\* at a grid parameter of t ticks.
abscissa_at_t(sel, t) ==
  IF sel = 0 THEN DoubleAbscissaTable[(t \div 4) + 1] ELSE FloatAbscissaTable[(t + 1) \div 2]
weight_at_t(sel, t) ==
  IF sel = 0 THEN DoubleWeightTable[(t \div 4) + 1] ELSE FloatWeightTable[(t + 1) \div 2]
abscissa_complement_at_t(sel, t) ==
  IF sel = 0 THEN DoubleComplementTable[(t \div 4) + 1]
  ELSE FloatComplementTable[(t + 1) \div 2]
\* t_from_abscissa_complement(Real(0.5f)) = 0.342937..., which is 87.79 ticks: a grid
\* parameter is below it exactly when it is below 88 ticks.
t_from_abscissa_complement(x) == IF x = RHalf THEN 88 ELSE 0

\* tools::epsilon<Real>(): 2^-23 for binary32, 2^-52 for binary64.
Epsilon(sel) == IF sel = 0 THEN 384222045 ELSE 393119209

\* ------------------------------------------------------------- the table
\* Element n of a vector, with what lies in memory behind its last element: an access
\* at n >= size() is undefined behaviour; when it does not fault it reads and writes
\* the memory behind the vector, which starts out zeroed (an empty row, a zero index).
InStore(vec, n) == n < Len(vec)
SlotRead(vec, spill, n, zero) ==
  IF n < Len(vec) THEN vec[n + 1]
  ELSE IF n - Len(vec) < Len(spill) THEN spill[n - Len(vec) + 1]
  ELSE zero
SlotWriteVec(vec, n, val) ==
  IF n < Len(vec) THEN [vec EXCEPT ![n + 1] = val] ELSE vec
SlotWriteSpill(vec, spill, n, val, zero) ==
  IF n < Len(vec) THEN spill
  ELSE LET i == n - Len(vec) + 1
       IN  [j \in 1..(IF i > Len(spill) THEN i ELSE Len(spill)) |->
              IF j = i THEN val ELSE IF j <= Len(spill) THEN spill[j] ELSE zero]

AbscissaRow(e, n) == SlotRead(e.m_abscissas, e.spill_abscissas, n, <<>>)
WeightRow(e, n) == SlotRead(e.m_weights, e.spill_weights, n, <<>>)
FirstComplement(e, n) == SlotRead(e.m_first_complements, e.spill_first_complements, n, 0)

\* The number of passes of "for (Real pos = h; pos < m_t_max; pos += 2 * h)", and the
\* value of pos in pass i = 1, 2, ...
LoopPasses(h, t_max) == IF t_max <= h THEN 0 ELSE ((t_max - h - 1) \div (2 * h)) + 1
LoopPos(h, i) == h + 2 * h * (i - 1)

\* The first loop of extend_refinements: it pushes one entry onto the row in each pass
\* and counts the passes below the crossover.
ExtendAbscissaLoop(sel, h, t_max, cross, row) ==
  [row |-> row \o [i \in 1..LoopPasses(h, t_max) |->
                     IF LoopPos(h, i) < cross THEN abscissa_at_t(sel, LoopPos(h, i))
                     ELSE RNeg(abscissa_complement_at_t(sel, LoopPos(h, i)))],
   first_complement |->
     Cardinality({i \in 1..LoopPasses(h, t_max) : LoopPos(h, i) < cross})]

\* The second loop of extend_refinements, pushing the weights.
ExtendWeightLoop(sel, h, t_max, row) ==
  row \o [i \in 1..LoopPasses(h, t_max) |-> weight_at_t(sel, LoopPos(h, i))]

\* A faulty variant of extend_refinements that leaves out ++m_committed_refinements and
\* pushes onto the row that is already committed.
extend_refinements_in_place(e) ==
  LET row == e.m_committed_refinements
      h == Ldexp1(row + 1)
      a == ExtendAbscissaLoop(e.selector, h, e.m_t_max, e.m_t_crossover,
                              AbscissaRow(e, row))
      w == ExtendWeightLoop(e.selector, h, e.m_t_max, WeightRow(e, row))
  IN  [e EXCEPT
        !.m_abscissas = SlotWriteVec(e.m_abscissas, row, a.row),
        !.m_weights = SlotWriteVec(e.m_weights, row, w)]
\* extend_refinements(): ++m_committed_refinements, then the two loops on that row.
extend_refinements(e) ==
  LET row == e.m_committed_refinements + 1
      h == Ldexp1(row)
      a == ExtendAbscissaLoop(e.selector, h, e.m_t_max, e.m_t_crossover,
                              AbscissaRow(e, row))
      w == ExtendWeightLoop(e.selector, h, e.m_t_max, WeightRow(e, row))
  IN  [e EXCEPT
        !.m_committed_refinements = row,
        !.m_abscissas = SlotWriteVec(e.m_abscissas, row, a.row),
        !.spill_abscissas = SlotWriteSpill(e.m_abscissas, e.spill_abscissas, row, a.row, <<>>),
        !.m_first_complements = SlotWriteVec(e.m_first_complements, row, a.first_complement),
        !.spill_first_complements =
           SlotWriteSpill(e.m_first_complements, e.spill_first_complements, row,
                          a.first_complement, 0),
        !.m_weights = SlotWriteVec(e.m_weights, row, w),
        !.spill_weights = SlotWriteSpill(e.m_weights, e.spill_weights, row, w, <<>>)]

\* A faulty variant of get_row that never extends the table.
get_row_WithoutExtension(e, n) == e
\* get_abscissa_row(n), get_weight_row(n), get_first_complement_index(n): the engine
\* after the call (one extension when m_committed_refinements < n).
get_row(e, n) == IF e.m_committed_refinements < n THEN extend_refinements(e) ELSE e
\* BOOST_ASSERT(m_committed_refinements >= n) of the three accessors.
AccessorAssertHolds(e, n) == e.m_committed_refinements >= n

\* ----------------------------------------------------------- construction
\* Row 0 of init(mpl::int_<0>): the entries at t = h * i for i < m_inital_row_length and
\* the final entry at m_t_max.  first_complement is a std::size_t, so the comparison
\* (first_complement < 0) is false for each of its values and it stays 0.
Init0FirstComplement(len, h, cross) ==
  LET RECURSIVE Scan(_, _)
      Scan(i, first_complement) ==
        IF i < len
        THEN Scan(i + 1, IF (first_complement < 0) /\ (h * i < cross) THEN i
                         ELSE first_complement)
        ELSE first_complement
  IN  Scan(0, 0)
Init0Row0Abscissas(sel, len, h, t_max, cross) ==
  [j \in 1..(len + 1) |->
     IF j <= len
     THEN (IF h * (j - 1) < cross THEN abscissa_at_t(sel, h * (j - 1))
           ELSE RNeg(abscissa_complement_at_t(sel, h * (j - 1))))
     ELSE abscissa_complement_at_t(sel, t_max)]
Init0Row0Weights(sel, len, h, t_max) ==
  [j \in 1..(len + 1) |->
     IF j <= len THEN weight_at_t(sel, h * (j - 1)) ELSE weight_at_t(sel, t_max)]

\* One pass of "for (row = 1; row <= m_committed_refinements; ++row)" of
\* init(mpl::int_<0>), with h already halved for this row.  temp is empty when the pass
\* starts: every swap before it exchanged temp with an empty row.
Init0AbscissaLoop(sel, h, t_max, cross, temp) ==
  [row |-> temp \o [i \in 1..LoopPasses(h, t_max) |->
                      IF LoopPos(h, i) < cross THEN abscissa_at_t(sel, LoopPos(h, i))
                      ELSE RNeg(abscissa_complement_at_t(sel, LoopPos(h, i)))],
   first_complement |->
     0 + Cardinality({i \in 1..LoopPasses(h, t_max) : LoopPos(h, i) < cross})]
Init0WeightLoop(sel, h, t_max, temp) ==
  temp \o [i \in 1..LoopPasses(h, t_max) |-> weight_at_t(sel, LoopPos(h, i))]
RECURSIVE Init0Rows(_, _, _)
Init0Rows(e, row, h) ==
  IF row <= e.m_committed_refinements
  THEN LET a == Init0AbscissaLoop(e.selector, h \div 2, e.m_t_max, e.m_t_crossover, <<>>)
           w == Init0WeightLoop(e.selector, h \div 2, e.m_t_max, <<>>)
       IN  Init0Rows(
             [e EXCEPT
               !.m_abscissas = SlotWriteVec(e.m_abscissas, row, a.row),
               !.spill_abscissas =
                  SlotWriteSpill(e.m_abscissas, e.spill_abscissas, row, a.row, <<>>),
               !.m_first_complements =
                  SlotWriteVec(e.m_first_complements, row, a.first_complement),
               !.spill_first_complements =
                  SlotWriteSpill(e.m_first_complements, e.spill_first_complements, row,
                                 a.first_complement, 0),
               !.m_weights = SlotWriteVec(e.m_weights, row, w),
               !.spill_weights = SlotWriteSpill(e.m_weights, e.spill_weights, row, w, <<>>)],
             row + 1, h \div 2)
  ELSE e

\* init(const mpl::int_<0>&)
init0(e) ==
  LET len == 7
      t_max == len * Tick
      cross == t_from_abscissa_complement(RHalf)
      h == t_max \div len
      e1 == [e EXCEPT
              !.m_inital_row_length = len,
              !.m_t_max = t_max,
              !.m_t_crossover = cross,
              !.m_abscissas =
                 [n \in 1..(e.m_max_refinements + 1) |->
                    IF n = 1 THEN Init0Row0Abscissas(e.selector, len, h, t_max, cross)
                    ELSE <<>>],
              !.m_weights =
                 [n \in 1..(e.m_max_refinements + 1) |->
                    IF n = 1 THEN Init0Row0Weights(e.selector, len, h, t_max) ELSE <<>>],
              !.m_first_complements =
                 [n \in 1..(e.m_max_refinements + 1) |->
                    IF n = 1 THEN Init0FirstComplement(len, h, cross) ELSE 0]]
  IN  Init0Rows(e1, 1, h)

\* init(const mpl::int_<1>&) up to its while loop: the literal tables.
init1_seed(e) ==
  [e EXCEPT
    !.m_inital_row_length = 4,
    !.m_abscissas = SeedAbscissas,
    !.m_weights = SeedWeights,
    !.m_first_complements = SeedFirstComplements]

\* init(const mpl::int_<1>&) after its while loop.
init1_finish(e) ==
  LET size == Len(e.m_abscissas)
      grow == e.m_max_refinements >= size
      Resized(vec, zero) ==
        [n \in 1..(e.m_max_refinements + 1) |-> IF n <= Len(vec) THEN vec[n] ELSE zero]
  IN  [e EXCEPT
        !.m_committed_refinements = size - 1,
        !.m_abscissas = IF grow THEN Resized(e.m_abscissas, <<>>) ELSE e.m_abscissas,
        !.m_weights = IF grow THEN Resized(e.m_weights, <<>>) ELSE e.m_weights,
        !.m_first_complements =
           IF grow THEN Resized(e.m_first_complements, 0) ELSE e.m_first_complements,
        !.m_max_refinements = IF grow THEN e.m_max_refinements ELSE size - 1,
        !.m_t_max = e.m_inital_row_length * Tick,
        !.m_t_crossover = t_from_abscissa_complement(RHalf)]


\* ------------------------------------------------------------ integrands
\* The integrands F passed to integrate, each a function of the abscissa x and the
\* signed complement c (both Real codes).
Integrands == {"zero", "one", "step", "pole0", "spike1", "sign"}
f(name, x, c) ==
  CASE name = "zero" -> 0
    [] name = "one" -> 1
    [] name = "step" -> (IF x >= 399300000 THEN 1 ELSE 0)
    [] name = "pole0" -> (IF x = 0 THEN NaN ELSE 1)
    [] name = "spike1" -> (IF x > 399670000 /\ x < 399680000 THEN PosInf ELSE 1)
    [] name = "sign" -> (IF x > 0 THEN 1 ELSE IF x < 0 THEN 0 - 1 ELSE 0)

\* The thresholds a caller passes for left_min_complement and right_min_complement:
\* the default tools::epsilon<Real>(), 1e-3, 1e-2, 0.1 and 0.
Threshold(sel, name) ==
  CASE name = "eps" -> Epsilon(sel)
    [] name = "milli" -> 397100000
    [] name = "centi" -> 398100000
    [] name = "tenth" -> 399100000
    [] name = "zero" -> 0
\* The integrate calls that are followed: (integrand, left_min_complement,
\* right_min_complement).  Every integrand runs under the default thresholds, every
\* pair of thresholds under the integrand 1, and the odd integrand sign(x) under equal
\* and unequal thresholds.
CallInputs ==
  (Integrands \X {"eps"} \X {"eps"})
  \cup { <<"one", "milli", "milli">>, <<"one", "eps", "milli">>, <<"one", "tenth", "eps">>,
         <<"one", "zero", "eps">>, <<"sign", "milli", "milli">>, <<"sign", "eps", "centi">> }

\* The tolerances passed to the constructor: 0 and 2^-10, written as the divisor.
Tolerances == {0, 2 ^ 10}
\* m_tol * L1_I1
TolTimes(tol, l1) ==
  IF tol = 0 THEN EMul(l1, 0) ELSE IF IsFinite(l1) THEN l1 \div tol ELSE l1
\* a <= b on estimates
ELe(a, b) == a # NaN /\ b # NaN /\ a <= b

\* half_pi<Real>() in weight units.
HalfPiW == 102944

\* ---------------------------------------------------------------- state
VARIABLES
  engine,     \* the tanh_sinh_detail object: its data members, and the memory behind
              \* its three vectors once an out-of-range access has touched it
  requested,  \* the constructor's arguments max_refinements and initial_commit
  build,      \* "checked": BOOST_ASSERT aborts when it fails; "ndebug": it is a no-op
  pc,         \* where the program is
  call,       \* the locals of the running (or last) integrate call
  ncalls,     \* the integrate calls made so far
  ctor_loops, \* the iterations made by the while loop of init(mpl::int_<1>)
  ub,         \* whether an access outside a vector has happened
  threads     \* the accessor calls of two integrate calls that run at the same time on
              \* the engine (RaceSpec); empty where one call runs at a time (Spec)

vars == <<engine, requested, build, pc, call, ncalls, ctor_loops, ub, threads>>

Uninit == 0 - 1
HugeTicks == 2 ^ 20
\* What an uninitialised Real member reads as: zero (or any value below one tick, or a
\* NaN, for which "pos < m_t_max" is false as well), or a huge value.
GarbageTicks == {0, HugeTicks}

\* The constructor calls that are followed: (selector, max_refinements, initial_commit).
Constructions ==
  ({0} \X (0..MaxRefinementsBound) \X (0..InitialCommitBound))
  \cup ({1} \X {0, SeedRows + 1} \X {0, SeedRows})

NoCall ==
  [f |-> "none", left_min |-> 0, right_min |-> 0,
   max_left_position |-> 0, max_right_position |-> 0, k |-> 0,
   I0 |-> 0, I1 |-> 0, L1_I0 |-> 0, L1_I1 |-> 0, err |-> 0, h |-> 0,
   fcalls |-> {}, reports |-> 0, result |-> 0, exit |-> "none"]

\* The member initialisers of the constructor (line 31); everything else is unset.
NewEngine(selector, tol, max_refinements, initial_commit) ==
  [selector |-> selector, m_tol |-> tol, m_max_refinements |-> max_refinements,
   m_committed_refinements |-> initial_commit, m_inital_row_length |-> 0,
   m_t_max |-> Uninit, m_t_crossover |-> Uninit,
   m_abscissas |-> <<>>, m_weights |-> <<>>, m_first_complements |-> <<>>,
   spill_abscissas |-> <<>>, spill_weights |-> <<>>, spill_first_complements |-> <<>>]

Init ==
  /\ \E c \in Constructions, tol \in Tolerances :
       /\ engine = NewEngine(c[1], tol, c[2], c[3])
       /\ requested = [max_refinements |-> c[2], initial_commit |-> c[3]]
  /\ build \in {"checked", "ndebug"}
  /\ pc = "ctor"
  /\ call = NoCall
  /\ ncalls = 0
  /\ ctor_loops = 0
  /\ ub = FALSE
  /\ threads = <<>>

\* An out-of-range access either faults or goes on in the memory behind the vector.
UBOutcomes == {"fault", "overrun"}

\* tanh_sinh_detail(tol, max_refinements, initial_commit) under selector 0.
Construct0 ==
  /\ pc = "ctor"
  /\ engine.selector = 0
  /\ LET oob == engine.m_committed_refinements > engine.m_max_refinements
     IN  \E outcome \in (IF oob THEN UBOutcomes ELSE {"ok"}) :
           /\ engine' = init0(engine)
           /\ pc' = IF outcome = "fault" THEN "fault" ELSE "idle"
           /\ ub' = oob
  /\ UNCHANGED <<threads, requested, build, call, ncalls, ctor_loops>>

\* init(mpl::int_<1>): the literal tables, up to the while loop.
Construct1Seed ==
  /\ pc = "ctor"
  /\ engine.selector = 1
  /\ engine' = init1_seed(engine)
  /\ pc' = "init1_loop"
  /\ UNCHANGED <<threads, requested, build, call, ncalls, ctor_loops, ub>>

\* One iteration of "while (m_abscissas.size() <= m_committed_refinements)
\* extend_refinements();".  m_t_max and m_t_crossover are read before init sets them.
\* The row written is m_committed_refinements + 1 >= size() + 1, outside the vectors.
Construct1Loop ==
  /\ pc = "init1_loop"
  /\ Len(engine.m_abscissas) <= engine.m_committed_refinements
  /\ ctor_loops < MaxCtorLoop
  /\ \E g \in (IF engine.m_t_max = Uninit THEN GarbageTicks ELSE {engine.m_t_max}),
        outcome \in UBOutcomes :
       LET e == [engine EXCEPT !.m_t_max = g, !.m_t_crossover = g]
       IN  IF g = HugeTicks \/ outcome = "fault"
           THEN /\ engine' = e
                /\ pc' = "fault"
           ELSE /\ engine' = extend_refinements(e)
                /\ pc' = "init1_loop"
  /\ ctor_loops' = ctor_loops + 1
  /\ ub' = TRUE
  /\ UNCHANGED <<threads, requested, build, call, ncalls>>

\* init(mpl::int_<1>) after the while loop.
Construct1Finish ==
  /\ pc = "init1_loop"
  /\ ~(Len(engine.m_abscissas) <= engine.m_committed_refinements)
  /\ engine' = init1_finish(engine)
  /\ pc' = "idle"
  /\ UNCHANGED <<threads, requested, build, call, ncalls, ctor_loops, ub>>


\* ------------------------------------------------------------- integrate
\* "while (max_left_position && fabs(m_abscissas[0][max_left_position]) <
\* left_min_complement) --max_left_position;" (and the same on the right).
RECURSIVE Walk(_, _, _)
Walk(row0, position, min_complement) ==
  IF position # 0 /\ RAbs(row0[position + 1]) < min_complement
  THEN Walk(row0, position - 1, min_complement)
  ELSE position

\* A faulty variant of Level0AssertsHold that leaves out the assertion on the left.
Level0AssertsHold_RightOnly(row0, max_left_position, max_right_position) ==
  row0[max_right_position + 1] < 0
\* The two BOOST_ASSERTs behind the walk.
Level0AssertsHold(row0, max_left_position, max_right_position) ==
  /\ row0[max_left_position + 1] < 0
  /\ row0[max_right_position + 1] < 0

\* The abscissa x and the complement xc taken from a stored value of row 0: the branch
\* is on signbit(x).
Level0X(v) == IF v < 0 THEN RAddOne(v) ELSE v
Level0XC(v) == IF v < 0 THEN v ELSE RSubOne(v)
\* The same for a row k >= 1: the branch is on j >= first_complement_index.
LevelX(v, j, first_complement_index) == IF j >= first_complement_index THEN RAddOne(v) ELSE v
LevelXC(v, j, first_complement_index) == IF j >= first_complement_index THEN v ELSE RSubOne(v)
\* BOOST_ASSERT(x < 0) and BOOST_ASSERT(x >= 0) of the level loop.
LevelAssertHolds(v, j, first_complement_index) ==
  IF j >= first_complement_index THEN v < 0 ELSE v >= 0

\* A faulty variant of LeftAbscissa that keeps the sign of x.
LeftAbscissa_Unmirrored(x) == x
\* The first argument "-x" of the left-side call f(-x, xc).
LeftAbscissa(x) == RNeg(x)

\* A call of the integrand, as the log keeps it: x and c are its arguments, t is the grid
\* parameter of the entry it was made for.
FCall(side, x, c, t) == [side |-> side, x |-> x, c |-> c, t |-> t]

\* The sum of the terms s[lo..hi], in the order of the loop (the sum of estimates does
\* not depend on how it is bracketed).
RECURSIVE ESum(_, _, _)
ESum(s, lo, hi) ==
  IF lo > hi THEN 0
  ELSE IF lo = hi THEN s[lo]
  ELSE EAdd(ESum(s, lo, (lo + hi) \div 2), ESum(s, ((lo + hi) \div 2) + 1, hi))

\* Where a loop over the indices first..size-1 stops: at size, or at the first index
\* above both bounds ("if ((i > max_right) && (i > max_left)) break;").
LoopEnd(first, size, max_left, max_right) ==
  LET top == IF max_left > max_right THEN max_left ELSE max_right
      stop == IF top + 1 < first THEN first ELSE top + 1
  IN  IF stop < size THEN stop ELSE (IF size < first THEN first ELSE size)

\* "for (size_t i = 1; i < m_abscissas[0].size(); ++i)" of level 0: I0 and L1_I0 behind
\* it, and the index it stopped at.
Level0Loop(name, row0, wrow0, max_left_position, max_right_position, I0, L1_I0) ==
  LET end == LoopEnd(1, Len(row0), max_left_position, max_right_position)
      yp(i) == IF i <= max_right_position
               THEN f(name, Level0X(row0[i + 1]), RNeg(Level0XC(row0[i + 1]))) ELSE 0
      ym(i) == IF i <= max_left_position
               THEN f(name, LeftAbscissa(Level0X(row0[i + 1])), Level0XC(row0[i + 1])) ELSE 0
      term(i) == EMul(EMul(EAdd(yp(i), ym(i)), wrow0[i + 1]), Tick)
      abterm(i) == EMul(EMul(EAdd(EAbs(yp(i)), EAbs(ym(i))), wrow0[i + 1]), Tick)
  IN  [I0 |-> EAdd(I0, ESum([i \in 1..(end - 1) |-> term(i)], 1, end - 1)),
       L1_I0 |-> EAdd(L1_I0, ESum([i \in 1..(end - 1) |-> abterm(i)], 1, end - 1)),
       end |-> end]

\* The integrand calls made by level 0 when its loop stopped at index end; entry i of
\* row 0 is at the grid parameter h * i.
Level0Calls(row0, end, max_left_position, max_right_position, h) ==
  {FCall("C", RZero, ROne, 0)}
  \cup {FCall("R", Level0X(row0[i + 1]), RNeg(Level0XC(row0[i + 1])), h * i) :
          i \in {n \in 1..(end - 1) : n <= max_right_position}}
  \cup {FCall("L", LeftAbscissa(Level0X(row0[i + 1])), Level0XC(row0[i + 1]), h * i) :
          i \in {n \in 1..(end - 1) : n <= max_left_position}}

\* "for (size_t j = 0; j < weight_row.size(); ++j)" of level k >= 1: sum and absum
\* behind it, and the index it stopped at.
LevelLoop(name, row, wrow, fci, max_left_index, max_right_index) ==
  LET end == LoopEnd(0, Len(wrow), max_left_index, max_right_index)
      yp(j) == IF j > max_right_index THEN 0
               ELSE f(name, LevelX(row[j + 1], j, fci), RNeg(LevelXC(row[j + 1], j, fci)))
      ym(j) == IF j > max_left_index THEN 0
               ELSE f(name, LeftAbscissa(LevelX(row[j + 1], j, fci)), LevelXC(row[j + 1], j, fci))
      term(j) == EMul(EAdd(yp(j), ym(j)), wrow[j + 1])
      abterm(j) == EMul(EAdd(EAbs(yp(j)), EAbs(ym(j))), wrow[j + 1])
  IN  [sum |-> ESum([n \in 1..end |-> term(n - 1)], 1, end),
       absum |-> ESum([n \in 1..end |-> abterm(n - 1)], 1, end),
       end |-> end]

\* The integrand calls made by the level loop on the entries j < end; entry j of a row
\* with spacing h is at the grid parameter h + 2 * h * j.
LevelCalls(row, fci, end, max_left_index, max_right_index, h) ==
  {FCall("R", LevelX(row[j + 1], j, fci), RNeg(LevelXC(row[j + 1], j, fci)),
         LoopPos(h, j + 1)) :
     j \in {n \in 0..(end - 1) : ~(n > max_right_index)}}
  \cup {FCall("L", LeftAbscissa(LevelX(row[j + 1], j, fci)), LevelXC(row[j + 1], j, fci),
               LoopPos(h, j + 1)) :
          j \in {n \in 0..(end - 1) : ~(n > max_left_index)}}

\* The condition of "while (k < 4 || (k < m_weights.size() && k < m_max_refinements))".
LoopCondition(e, k) == k < 4 \/ (k < Len(e.m_weights) /\ k < e.m_max_refinements)
\* A faulty variant of Converged that leaves out the floor on k.
Converged_WithoutFloor(e, k, err, L1_I1) == ELe(err, TolTimes(e.m_tol, L1_I1))
\* "if ((k > 4) && (err <= m_tol*L1_I1)) break;"
Converged(e, k, err, L1_I1) == (k > 4) /\ ELe(err, TolTimes(e.m_tol, L1_I1))

\* "if (!(boost::math::isfinite)(I1))"; the faulty variant never takes the branch.
NonFiniteEstimate_Ignored(I1) == FALSE
NonFiniteEstimate(I1) == ~IsFinite(I1)

\* A faulty variant of StepInside that leaves out the comparison with the threshold.
StepInside_Unguarded(row, position, min_complement) ==
  Len(row) > SizeAdd(SizeSub(position, 1), 1)
\* The index bound of a side at the start of a row: index = position - 1, position *= 2,
\* then one comparison against the entry at index + 1.
StepInside(row, position, min_complement) ==
  LET index == SizeSub(position, 1)
  IN  (Len(row) > SizeAdd(index, 1)) /\ (RAbs(row[SizeAdd(index, 1) + 1]) > min_complement)
NextIndex(row, position, min_complement) ==
  IF StepInside(row, position, min_complement)
  THEN SizeAdd(SizeSub(position, 1), 1) ELSE SizeSub(position, 1)
\* A faulty variant of NextPosition that leaves out the doubling of the position.
NextPosition_NotDoubled(row, position, min_complement) ==
  IF StepInside(row, position, min_complement) THEN SizeAdd(position, 1) ELSE position
NextPosition(row, position, min_complement) ==
  IF StepInside(row, position, min_complement)
  THEN SizeAdd((position * 2) % SizeMod, 1) ELSE (position * 2) % SizeMod

\* integrate(f, error, L1, function, left_min_complement, right_min_complement) from its
\* entry to the start of the while loop.
IntegrateBegin ==
  /\ pc \in {"idle", "returned", "reported"}
  /\ ncalls < MaxCalls
  /\ ncalls' = ncalls + 1
  /\ \E in \in CallInputs :
       LET name == in[1]
           left_min == Threshold(engine.selector, in[2])
           right_min == Threshold(engine.selector, in[3])
           row0 == engine.m_abscissas[1]
           wrow0 == engine.m_weights[1]
           maxL == Walk(row0, Len(row0) - 1, left_min)
           maxR == Walk(row0, Len(row0) - 1, right_min)
           start == [NoCall EXCEPT !.f = name, !.left_min = left_min,
                       !.right_min = right_min, !.max_left_position = maxL,
                       !.max_right_position = maxR]
       IN  IF ~Level0AssertsHold(row0, maxL, maxR) /\ build = "checked"
           THEN /\ call' = [start EXCEPT !.exit = "assert"]
                /\ pc' = "aborted"
           ELSE LET h == engine.m_t_max \div engine.m_inital_row_length
                    c == f(name, RZero, ROne)
                    r == Level0Loop(name, row0, wrow0, maxL, maxR,
                                    EMul(EMul(c, HalfPiW), Tick),
                                    EAbs(EMul(EMul(c, HalfPiW), Tick)))
                IN  /\ call' = [start EXCEPT
                                 !.h = h, !.k = 1,
                                 !.I0 = r.I0, !.L1_I0 = r.L1_I0,
                                 !.I1 = r.I0, !.L1_I1 = r.L1_I0, !.err = 0,
                                 !.fcalls = Level0Calls(row0, r.end, maxL, maxR, h)]
                    /\ pc' = "loop"
  /\ UNCHANGED <<threads, engine, requested, build, ctor_loops, ub>>

\* One pass of the while loop: row k.
LevelStep ==
  /\ pc = "loop"
  /\ LoopCondition(engine, call.k)
  /\ LET k == call.k
         oob == ~InStore(engine.m_abscissas, k)
     IN  \E outcome \in (IF oob THEN UBOutcomes ELSE {"ok"}) :
           IF outcome = "fault"
           THEN /\ pc' = "fault"
                /\ ub' = TRUE
                /\ UNCHANGED <<engine, call>>
           ELSE
             \* the three accessor calls; abscissa_row and weight_row are references into the table
             \E e1 \in {get_row(engine, k)} :
             \E e2 \in {get_row(e1, k)} :
             \E e3 \in {get_row(e2, k)} :
             \E abscissa_row \in {AbscissaRow(e3, k)}, weight_row \in {WeightRow(e3, k)} :
             LET accessors_hold ==
                   /\ AccessorAssertHolds(e1, k)
                   /\ AccessorAssertHolds(e2, k)
                   /\ AccessorAssertHolds(e3, k)
                 fci == FirstComplement(e3, k)
                 I0 == call.I1
                 L1_I0 == call.L1_I1
                 h == call.h \div 2
                 max_left_index ==
                   NextIndex(abscissa_row, call.max_left_position, call.left_min)
                 max_left_position ==
                   NextPosition(abscissa_row, call.max_left_position, call.left_min)
                 max_right_index ==
                   NextIndex(abscissa_row, call.max_right_position, call.right_min)
                 max_right_position ==
                   NextPosition(abscissa_row, call.max_right_position, call.right_min)
                 r == LevelLoop(call.f, abscissa_row, weight_row, fci,
                                max_left_index, max_right_index)
                 bad == {j \in 0..(r.end - 1) :
                           ~LevelAssertHolds(abscissa_row[j + 1], j, fci)}
                 first_bad == CHOOSE j \in bad : \A i \in bad : j <= i
                 I1 == EAdd(EHalf(I0), EMul(r.sum, h))
                 L1_I1 == EAdd(EHalf(L1_I0), EMul(r.absum, h))
                 err == EAbs(ESub(I0, I1))
                 moved == [call EXCEPT
                            !.max_left_position = max_left_position,
                            !.max_right_position = max_right_position,
                            !.I0 = I0, !.L1_I0 = L1_I0, !.h = h]
             IN  /\ engine' = e3
                 /\ ub' = (ub \/ oob)
                 /\ IF build = "checked" /\ ~accessors_hold
                    THEN /\ call' = [call EXCEPT !.exit = "assert", !.fcalls = {}]
                         /\ pc' = "aborted"
                    ELSE IF build = "checked" /\ bad # {}
                    THEN /\ call' = [moved EXCEPT
                                      !.exit = "assert",
                                      !.fcalls = LevelCalls(abscissa_row, fci, first_bad,
                                                            max_left_index, max_right_index, h)]
                         /\ pc' = "aborted"
                    ELSE LET done == [moved EXCEPT
                                       !.I1 = I1, !.L1_I1 = L1_I1, !.k = k + 1, !.err = err,
                                       !.fcalls = LevelCalls(abscissa_row, fci, r.end,
                                                             max_left_index, max_right_index, h)]
                         IN  IF NonFiniteEstimate(I1)
                             THEN /\ call' = [done EXCEPT !.reports = call.reports + 1,
                                                          !.result = I1, !.exit = "error"]
                                  /\ pc' = "reported"
                             ELSE IF Converged(engine, k + 1, err, L1_I1)
                             THEN /\ call' = [done EXCEPT !.exit = "converged"]
                                  /\ pc' = "exit"
                             ELSE /\ call' = done
                                  /\ pc' = "loop"
  /\ UNCHANGED <<threads, requested, build, ncalls, ctor_loops>>

\* Behind the loop: *error = err, *L1 = L1_I1, return I1.
Return ==
  /\ \/ pc = "exit"
     \/ pc = "loop" /\ ~LoopCondition(engine, call.k)
  /\ call' = [call EXCEPT !.result = call.I1,
                          !.exit = IF pc = "exit" THEN "converged" ELSE "bound"]
  /\ pc' = "returned"
  /\ UNCHANGED <<threads, engine, requested, build, ncalls, ctor_loops, ub>>

Next ==
  \/ Construct0
  \/ Construct1Seed
  \/ Construct1Loop
  \/ Construct1Finish
  \/ IntegrateBegin
  \/ LevelStep
  \/ Return

Spec == Init /\ [][Next]_vars

\* ------------------------------------------------------------ properties
\* The constructor has returned.
Constructed == pc \in {"idle", "loop", "exit", "returned", "reported", "aborted"}
\* An integrate call has started.
Called == call.f # "none"
\* The levels 1..k-1 are those the running call has evaluated.
LastLevel == call.k - 1

Row0 == engine.m_abscissas[1]
Range(s) == {s[i] : i \in 1..Len(s)}

\* The level-0 walk of the call stops on a negative entry on each side.
WalkEndsOnComplement ==
  /\ Called
  /\ Level0AssertsHold(Row0, Walk(Row0, Len(Row0) - 1, call.left_min),
                       Walk(Row0, Len(Row0) - 1, call.right_min))

\* C1: in a call whose level-0 walk stops on a negative entry on each side, no call of
\* the integrand on the right side has a complement of magnitude below
\* right_min_complement, and none on the left side has one below left_min_complement.
C1_ThresholdsBoundTheCalls ==
  WalkEndsOnComplement =>
    \A c \in call.fcalls :
      /\ c.side = "R" => RAbs(c.c) >= call.right_min
      /\ c.side = "L" => RAbs(c.c) >= call.left_min

\* A call under the thresholds 1e-3 has evaluated level 3 on both sides, on a row that
\* holds an entry closer to the endpoint than the threshold.
C1_Witness ==
  /\ WalkEndsOnComplement
  /\ call.left_min = Threshold(engine.selector, "milli")
  /\ call.right_min = Threshold(engine.selector, "milli")
  /\ call.k >= 4
  /\ \E c \in call.fcalls : c.side = "R"
  /\ \E c \in call.fcalls : c.side = "L"
  /\ \E v \in Range(AbscissaRow(engine, LastLevel)) : v # 0 /\ RAbs(v) < call.right_min

\* C2: a call that returns has evaluated the levels 0 to 3, and when the convergence
\* test ended its loop it has evaluated level 4 as well.
C2_FourLevelsBeforeReturn ==
  /\ pc = "returned" => call.k >= 4
  /\ (pc \in {"exit", "returned"} /\ call.exit = "converged") => call.k >= 5

\* The integrand 0, whose error estimate is 0 from level 1 on, returns by the
\* convergence test right behind level 4.
C2_Witness ==
  /\ pc = "returned"
  /\ call.f = "zero"
  /\ call.exit = "converged"
  /\ call.err = 0
  /\ call.k = 5

\* C3: every level k a call evaluates is at most m_max_refinements and lies inside the
\* rows the table holds.
C3_LevelsWithinMaxRefinements ==
  (Called /\ call.k >= 2) =>
    /\ LastLevel <= engine.m_max_refinements
    /\ InStore(engine.m_abscissas, LastLevel)

\* C4: behind a level whose estimate I1 is not finite the call has made one report and
\* ended, and a call that goes on or returns has a finite estimate and no report.
C4_NonFiniteIsReported ==
  /\ (pc \in {"loop", "exit", "returned"} /\ call.k >= 2) =>
       /\ IsFinite(call.I1)
       /\ call.reports = 0
  /\ pc = "returned" => IsFinite(call.result)
  /\ pc = "reported" =>
       /\ ~IsFinite(call.I1)
       /\ call.reports = 1
       /\ call.exit = "error"

\* The integrand with an infinite value inside the interval has made its report.
C4_Witness ==
  /\ pc = "reported"
  /\ call.f = "spike1"
  /\ call.I1 = PosInf
  /\ call.reports = 1

\* The rows of level n, as the accessors return them.
TableRow(e, n) ==
  [abscissas |-> AbscissaRow(e, n), weights |-> WeightRow(e, n),
   first_complement |-> FirstComplement(e, n)]

\* C5: a step of an integrate call never lowers m_committed_refinements and leaves the
\* abscissa row, the weight row and the first complement index of every committed
\* level as they were.
C5_CommittedRowsKept ==
  [][Constructed =>
       /\ engine'.m_committed_refinements >= engine.m_committed_refinements
       /\ \A n \in 0..engine.m_committed_refinements :
            TableRow(engine', n) = TableRow(engine, n)]_vars

\* A second call has returned on a standard engine whose first call extended the table
\* beyond the rows of the constructor.
C5_Witness ==
  /\ pc = "returned"
  /\ ncalls = 2
  /\ engine.selector = 0
  /\ InStore(engine.m_abscissas, engine.m_committed_refinements)
  /\ engine.m_committed_refinements > requested.initial_commit
  /\ Len(AbscissaRow(engine, engine.m_committed_refinements)) > 0

\* The engine behind the passes of the while loop of init(mpl::int_<1>) that go on in
\* the memory behind the vectors, the unset constants reading as zero.
RECURSIVE Init1Passes(_, _)
Init1Passes(e, passes) ==
  IF passes = 0 THEN e
  ELSE Init1Passes(extend_refinements([e EXCEPT !.m_t_max = 0, !.m_t_crossover = 0]),
                   passes - 1)
\* The engine the constructor builds for initial_commit = n.
EagerEngine(selector, tol, max_refinements, n) ==
  IF selector = 0 THEN init0(NewEngine(selector, tol, max_refinements, n))
  ELSE IF n < SeedRows
  THEN init1_finish(init1_seed(NewEngine(selector, tol, max_refinements, n)))
  ELSE Init1Passes(init1_seed(NewEngine(selector, tol, max_refinements, n)), MaxCtorLoop)

\* The levels the calls have added to the rows of the constructor.
LazyLevels ==
  {n \in 1..engine.m_committed_refinements :
     n > (IF engine.selector = 0 THEN requested.initial_commit ELSE SeedRows - 1)}

\* C6: a row that calls of integrate have added at level n is the row of level n of the
\* engine constructed with initial_commit = n.
C6_LazyRowIsEagerRow ==
  Constructed =>
    \A n \in LazyLevels :
      TableRow(engine, n) =
        TableRow(EagerEngine(engine.selector, engine.m_tol, engine.m_max_refinements, n), n)

\* All entries >= 0 of the row come before all entries < 0, and first_complement is the
\* number of entries >= 0.
RowPartitioned(row, first_complement) ==
  /\ \A i \in 1..(Len(row) - 1) : row[i] < 0 => row[i + 1] < 0
  /\ first_complement = Cardinality({i \in 1..Len(row) : row[i] >= 0})

\* C7: in every committed row, level 0 included, the entries >= 0 come before the
\* entries < 0 and the first complement index is the number of entries >= 0.
C7_RowsPartitioned ==
  Constructed =>
    \A n \in 0..engine.m_committed_refinements :
      RowPartitioned(AbscissaRow(engine, n), FirstComplement(engine, n))

\* C8: every pass of the constructor's extension loop brings the loop nearer to its end
\* and is evaluated with the engine's t_max and crossover, and when the constructor
\* returns every level 0..initial_commit holds a row.
C8_ConstructionCompletes ==
  [][/\ (pc = "init1_loop" /\ pc' = "init1_loop") =>
          /\ engine'.m_committed_refinements - Len(engine'.m_abscissas)
               < engine.m_committed_refinements - Len(engine.m_abscissas)
          /\ engine'.m_t_max = engine'.m_inital_row_length * Tick
          /\ engine'.m_t_crossover = t_from_abscissa_complement(RHalf)
     /\ (pc \in {"ctor", "init1_loop"} /\ pc' = "idle") =>
          /\ engine'.m_committed_refinements >= requested.initial_commit
          /\ \A n \in 0..requested.initial_commit : Len(AbscissaRow(engine', n)) > 0]_vars

\* C9: when the constructor has returned, each of the three vectors has
\* m_max_refinements + 1 slots, m_committed_refinements <= m_max_refinements, and
\* m_max_refinements is at least what the caller asked for.
C9_StoreHoldsCommittedRows ==
  (pc = "idle" /\ ncalls = 0) =>
    /\ Len(engine.m_abscissas) = engine.m_max_refinements + 1
    /\ Len(engine.m_weights) = engine.m_max_refinements + 1
    /\ Len(engine.m_first_complements) = engine.m_max_refinements + 1
    /\ engine.m_committed_refinements <= engine.m_max_refinements
    /\ engine.m_max_refinements >= requested.max_refinements

\* The level-0 walk of the call passes every complement entry on one side and stops on
\* entry 0, the abscissa 0.
WalkPassesComplements ==
  /\ Called
  /\ \/ Walk(Row0, Len(Row0) - 1, call.left_min) = 0
     \/ Walk(Row0, Len(Row0) - 1, call.right_min) = 0

\* C10: a call whose level-0 walk passes every complement entry on one side is ended by
\* the assertion, before any call of the integrand and without an estimate.
C10_LargeThresholdRejected ==
  WalkPassesComplements =>
    /\ pc = "aborted"
    /\ call.exit = "assert"
    /\ call.fcalls = {}

\* ------------------------------------------- two calls on one engine
\* Two integrate calls run at the same time on one engine constructed under selector 0,
\* and both reach the row accessors of lines 212-214 for the same level n, the first
\* level the constructor has not committed.  A thread is at one statement of an accessor
\* or of extend_refinements; the members are mutable and no statement holds a lock, so
\* the statements of the two threads interleave freely.
Threads == {1, 2}
Other(t) == 3 - t

\* The statements of extend_refinements, and those of an accessor from its test to its
\* return.
InExtend(tpc) == tpc \in {"load", "store", "row", "push_a", "set_fc", "push_w"}
InAccessor(tpc) == tpc = "test" \/ InExtend(tpc) \/ tpc = "ret"

\* The largest max_refinements of the engines the two calls run on.
RaceMaxRefinements == 3

\* A thread in front of get_abscissa_row(n).
NewThread(n) ==
  [pc |-> "test", acc |-> "abscissa", n |-> n, tmp |-> 0, row |-> 0, i |-> 0,
   first_complement |-> 0, saw |-> "none", overlap |-> FALSE]

RaceInit ==
  /\ \E max_refinements \in 2..RaceMaxRefinements, initial_commit \in 0..1 :
       /\ engine = init0(NewEngine(0, 0, max_refinements, initial_commit))
       /\ requested = [max_refinements |-> max_refinements,
                       initial_commit |-> initial_commit]
       /\ threads = [t \in Threads |-> NewThread(initial_commit + 1)]
  /\ build = "checked"
  /\ pc = "race"
  /\ call = NoCall
  /\ ncalls = 0
  /\ ctor_loops = 0
  /\ ub = FALSE

\* Thread t makes a step of an accessor while the other thread is in extend_refinements.
Overlaps(t) == InExtend(threads[Other(t)].pc)

\* The step of thread t that leaves it as the record next, the engine becoming e.
RaceStep(t, e, next) ==
  /\ pc = "race"
  /\ engine' = e
  /\ threads' = [threads EXCEPT ![t] = [next EXCEPT !.overlap = @ \/ Overlaps(t)]]
  /\ UNCHANGED <<requested, build, pc, call, ncalls, ctor_loops, ub>>

\* The accessor that follows acc in lines 212-214.
NextAccessor(acc) ==
  CASE acc = "abscissa" -> "weight"
    [] acc = "weight" -> "first_complement"
    [] acc = "first_complement" -> "none"

\* "if (m_committed_refinements < n)" of an accessor.
RaceTest(t) ==
  /\ threads[t].pc = "test"
  /\ RaceStep(t, engine,
              [threads[t] EXCEPT
                 !.pc = IF engine.m_committed_refinements < threads[t].n THEN "load"
                        ELSE "ret"])

\* "++m_committed_refinements": the read of the member ...
RaceLoad(t) ==
  /\ threads[t].pc = "load"
  /\ RaceStep(t, engine,
              [threads[t] EXCEPT !.pc = "store", !.tmp = engine.m_committed_refinements])

\* ... and the write of the incremented value.
RaceStore(t) ==
  /\ threads[t].pc = "store"
  /\ RaceStep(t, [engine EXCEPT !.m_committed_refinements = threads[t].tmp + 1],
              [threads[t] EXCEPT !.pc = "row"])

\* A faulty variant of ExtendRowIndex that takes the row below.
ExtendRowIndex_Below(committed) == committed - 1
\* "std::size_t row = m_committed_refinements;"
ExtendRowIndex(committed) == committed

\* "std::size_t row = m_committed_refinements; ... std::size_t first_complement = 0;"
RaceRow(t) ==
  /\ threads[t].pc = "row"
  /\ RaceStep(t, engine,
              [threads[t] EXCEPT
                 !.pc = "push_a", !.i = 1, !.first_complement = 0,
                 !.row = ExtendRowIndex(engine.m_committed_refinements)])

\* The number of entries extend_refinements pushes onto a row.
FullLength(e, row) == LoopPasses(Ldexp1(row), e.m_t_max)

\* The first pass of a loop of extend_refinements is followed as one step, and the
\* passes behind it as another: a row is seen empty, partly filled and complete.
LastPass(e, row, i) == IF i = 1 /\ FullLength(e, row) >= 1 THEN 1 ELSE FullLength(e, row)

\* Passes of the first loop of extend_refinements: push_back on m_abscissas[row].
RacePushAbscissa(t) ==
  /\ threads[t].pc = "push_a"
  /\ LET th == threads[t]
         h == Ldexp1(th.row)
         last == LastPass(engine, th.row, th.i)
         Below(i) == LoopPos(h, i) < engine.m_t_crossover
         pushed == [j \in 1..(last - th.i + 1) |->
                      IF Below(th.i + j - 1)
                      THEN abscissa_at_t(engine.selector, LoopPos(h, th.i + j - 1))
                      ELSE RNeg(abscissa_complement_at_t(engine.selector,
                                                         LoopPos(h, th.i + j - 1)))]
     IN  IF th.i <= FullLength(engine, th.row)
         THEN RaceStep(t,
                [engine EXCEPT
                   !.m_abscissas =
                      SlotWriteVec(engine.m_abscissas, th.row,
                                   AbscissaRow(engine, th.row) \o pushed)],
                [th EXCEPT !.i = last + 1,
                           !.first_complement =
                              th.first_complement
                                + Cardinality({i \in th.i..last : Below(i)})])
         ELSE RaceStep(t, engine, [th EXCEPT !.pc = "set_fc"])

\* "m_first_complements[row] = first_complement;"
RaceSetFirstComplement(t) ==
  /\ threads[t].pc = "set_fc"
  /\ RaceStep(t,
       [engine EXCEPT
          !.m_first_complements =
             SlotWriteVec(engine.m_first_complements, threads[t].row,
                          threads[t].first_complement)],
       [threads[t] EXCEPT !.pc = "push_w", !.i = 1])

\* Passes of the second loop of extend_refinements: push_back on m_weights[row].
RacePushWeight(t) ==
  /\ threads[t].pc = "push_w"
  /\ LET th == threads[t]
         h == Ldexp1(th.row)
         last == LastPass(engine, th.row, th.i)
         pushed == [j \in 1..(last - th.i + 1) |->
                      weight_at_t(engine.selector, LoopPos(h, th.i + j - 1))]
     IN  IF th.i <= FullLength(engine, th.row)
         THEN RaceStep(t,
                [engine EXCEPT
                   !.m_weights =
                      SlotWriteVec(engine.m_weights, th.row,
                                   WeightRow(engine, th.row) \o pushed)],
                [th EXCEPT !.i = last + 1])
         ELSE RaceStep(t, engine, [th EXCEPT !.pc = "ret"])

\* Two push_back calls run on one vector at the same time: the behaviour is undefined,
\* and besides the two appends one after the other the program may fault.
RaceFault(t) ==
  /\ threads[t].pc \in {"push_a", "push_w"}
  /\ threads[Other(t)].pc = threads[t].pc
  /\ threads[Other(t)].row = threads[t].row
  /\ RaceStep(t, engine, [threads[t] EXCEPT !.pc = "fault"])

\* "BOOST_ASSERT(m_committed_refinements >= n); return m_abscissas[n];" and the same
\* in the two other accessors; behind the third the call reads the rows.
RaceReturn(t) ==
  /\ threads[t].pc = "ret"
  /\ LET th == threads[t]
     IN  IF ~AccessorAssertHolds(engine, th.n) /\ build = "checked"
         THEN RaceStep(t, engine, [th EXCEPT !.pc = "aborted"])
         ELSE IF NextAccessor(th.acc) = "none"
         THEN RaceStep(t, engine, [th EXCEPT !.pc = "use"])
         ELSE RaceStep(t, engine, [th EXCEPT !.pc = "test", !.acc = NextAccessor(th.acc)])

\* What a call finds in row n when its loop of lines 242-273 reads it.
RowState(e, n) ==
  IF Len(AbscissaRow(e, n)) = 0 \/ Len(WeightRow(e, n)) = 0 THEN "empty"
  ELSE IF Len(AbscissaRow(e, n)) < FullLength(e, n) \/ Len(WeightRow(e, n)) < FullLength(e, n)
  THEN "partial"
  ELSE IF Len(AbscissaRow(e, n)) > FullLength(e, n) \/ Len(WeightRow(e, n)) > FullLength(e, n)
  THEN "duplicated"
  ELSE "full"

\* The loop over the row of level n (lines 242-273) in thread t.
RaceUse(t) ==
  /\ threads[t].pc = "use"
  /\ RaceStep(t, engine,
              [threads[t] EXCEPT !.pc = "done", !.saw = RowState(engine, threads[t].n)])

RaceNext ==
  \E t \in Threads :
    \/ RaceTest(t)
    \/ RaceLoad(t)
    \/ RaceStore(t)
    \/ RaceRow(t)
    \/ RacePushAbscissa(t)
    \/ RaceSetFirstComplement(t)
    \/ RacePushWeight(t)
    \/ RaceFault(t)
    \/ RaceReturn(t)
    \/ RaceUse(t)

RaceSpec == RaceInit /\ [][RaceNext]_vars

\* A level <= m_committed_refinements was read while empty or partly filled.
ReadUnfinished == \E t \in Threads : threads[t].saw \in {"empty", "partial"}
\* A committed row holds more entries than extend_refinements pushes onto it.
RowDuplicated ==
  \E n \in 1..engine.m_committed_refinements :
    InStore(engine.m_abscissas, n) /\ RowState(engine, n) = "duplicated"
\* Both extensions are over and a committed level has no row.
LevelSkipped ==
  /\ \A t \in Threads : ~InAccessor(threads[t].pc)
  /\ \E n \in 1..engine.m_committed_refinements :
       InStore(engine.m_abscissas, n) /\ RowState(engine, n) = "empty"
CacheInconsistent == pc = "race" /\ (ReadUnfinished \/ RowDuplicated \/ LevelSkipped)

\* C11: two calls that need the same uncommitted level can leave the cache inconsistent
\* (a committed level read while empty or partly filled, a row with duplicated entries,
\* a level skipped by a double increment); the cache is inconsistent only when a thread
\* ran a statement of an accessor while the other was inside extend_refinements.
C11_InconsistentOnlyByOverlap ==
  CacheInconsistent => \E t \in Threads : threads[t].overlap

\* Both threads have incremented m_committed_refinements for the one level n: level n
\* is committed and empty, level n + 1 holds every entry twice, and a call has read the
\* empty row n.
C11_Witness ==
  /\ pc = "race"
  /\ \A t \in Threads : threads[t].pc = "done"
  /\ engine.m_committed_refinements = requested.initial_commit + 2
  /\ ReadUnfinished
  /\ RowDuplicated
  /\ LevelSkipped

\* ------------------------------------------------- properties of the calls
\* tanh(half_pi * sinh(t)), the abscissa of the grid parameter t, in the Real of sel.
TrueAbscissa(sel, t) ==
  IF sel = 0 THEN DoubleAbscissaTable[(t \div 4) + 1]
  ELSE IF t % 2 = 1 THEN FloatAbscissaTable[(t + 1) \div 2]
  ELSE FloatGridAbscissaTable[(t \div 2) + 1]

\* Two values in [0, 1] that agree to the sixth decimal, up to one unit of rounding.
Near(a, b) == RMicro(a) - RMicro(b) \in {0 - 1, 0, 1}

\* The call c of the integrand, mirrored onto the right side.
MirroredX(c) == IF c.side = "L" THEN RNeg(c.x) ELSE c.x
MirroredC(c) == IF c.side = "L" THEN RNeg(c.c) ELSE c.c

\* The call c is f(x, 1 - x) on the right, f(-x, -(1 - x)) on the left, with x the
\* abscissa of its grid parameter and 1 - x > 0.
CallAtTrueAbscissa(sel, c) ==
  /\ MirroredX(c) >= 0
  /\ Near(MirroredX(c), TrueAbscissa(sel, c.t))
  /\ MirroredC(c) > 0
  /\ Near(MirroredC(c), RFromMicro(Pow10(6) - RMicro(MirroredX(c))))

\* C12: every call of the integrand made for a stored entry is f(x, c) on the right and
\* f(-x, -c) on the left, with x the abscissa of the entry's grid parameter and
\* c = 1 - x > 0.
C12_CallsAtTrueAbscissa ==
  \A c \in call.fcalls : c.side \in {"L", "R"} => CallAtTrueAbscissa(engine.selector, c)

\* The running call has the odd integrand: f(-x, -c) = -f(x, c), and f(0, 1) = 0.
OddCall == Called /\ call.f = "sign"
\* |a| <= m_tol * l1
WithinTolerance(a, l1) == ELe(EAbs(a), TolTimes(engine.m_tol, l1))

\* C13, as stated: under every pair of thresholds that passes the level-0 assertions,
\* a call with an odd integrand returns 0 within the tolerance.
C13_OddIntegratesToZero ==
  (pc = "returned" /\ OddCall /\ WalkEndsOnComplement) =>
    WithinTolerance(call.result, call.L1_I1)

\* C13, amended: under equal thresholds the calls of an odd integrand cancel in pairs,
\* every estimate of the call is exactly 0 and so is the value returned.
C13_OddCancelsUnderEqualThresholds ==
  (OddCall /\ call.left_min = call.right_min) =>
    /\ call.I1 = 0
    /\ \A c \in call.fcalls :
         c.side = "L" => \E d \in call.fcalls : d.side = "R" /\ d.x = RNeg(c.x) /\ d.t = c.t
    /\ \A c \in call.fcalls :
         c.side = "R" => \E d \in call.fcalls : d.side = "L" /\ d.x = RNeg(c.x) /\ d.t = c.t
    /\ pc = "returned" => call.result = 0 /\ call.err = 0

\* A call of the odd integrand under the thresholds 1e-3 has returned 0 with a nonzero
\* L1 norm: the calls on both sides were made and cancelled.
C13_Witness ==
  /\ pc = "returned"
  /\ OddCall
  /\ call.left_min = Threshold(engine.selector, "milli")
  /\ call.right_min = call.left_min
  /\ call.result = 0
  /\ call.L1_I1 > 0
  /\ \E c \in call.fcalls : c.side = "L"

\* ------------------------------------------------------- the level-k grid
\* 1 - abscissa at the grid parameter of t ticks, as abscissa_complement_at_t makes it.
TrueComplement(sel, t) ==
  IF sel = 0 \/ t % 2 = 1 THEN abscissa_complement_at_t(sel, t)
  ELSE FloatGridComplementTable[(t \div 2) + 1]
\* The row that holds the grid parameter of t ticks, and the index of its entry: row 0
\* holds the whole numbers, row r >= 1 the odd multiples of 2^-r.
RowOfT(t) ==
  IF t % Tick = 0 THEN 0
  ELSE CHOOSE r \in 1..8 : t % (Tick \div 2 ^ r) = 0 /\ t % (Tick \div 2 ^ (r - 1)) # 0
IndexOfT(t) ==
  IF t % Tick = 0 THEN t \div Tick
  ELSE ((t \div (Tick \div 2 ^ RowOfT(t))) - 1) \div 2
\* The weight of the grid parameter of t ticks: the literal of init(mpl::int_<1>) where
\* there is one, and weight_at_t elsewhere.
TrueWeight(sel, t) ==
  IF sel = 1 /\ RowOfT(t) < SeedRows THEN SeedWeights[RowOfT(t) + 1][IndexOfT(t) + 1]
  ELSE weight_at_t(sel, t)

\* The integrands whose values are all finite.
FiniteIntegrands == {"zero", "one", "step", "sign"}
\* The two calls at the grid parameter t, each made when the complement is above the
\* threshold of its side, and counting as zero otherwise.
GridRight(name, sel, t, right_min) ==
  IF TrueComplement(sel, t) > right_min
  THEN f(name, TrueAbscissa(sel, t), TrueComplement(sel, t)) ELSE 0
GridLeft(name, sel, t, left_min) ==
  IF TrueComplement(sel, t) > left_min
  THEN f(name, RNeg(TrueAbscissa(sel, t)), RNeg(TrueComplement(sel, t))) ELSE 0
\* The sum of weight(t) * f over the grid t = i * 2^-k, 0 <= i <= t_max * 2^k, both
\* sides, and the same sum over the absolute values.
GridSum(name, sel, k, t_max, left_min, right_min) ==
  LET step == Tick \div 2 ^ k
      n == t_max \div step
  IN  HalfPiW * f(name, RZero, ROne)
        + ESum([i \in 1..n |->
                  TrueWeight(sel, i * step)
                    * (GridRight(name, sel, i * step, right_min)
                         + GridLeft(name, sel, i * step, left_min))], 1, n)
GridAbsSum(name, sel, k, t_max, left_min, right_min) ==
  LET step == Tick \div 2 ^ k
      n == t_max \div step
  IN  HalfPiW * EAbs(f(name, RZero, ROne))
        + ESum([i \in 1..n |->
                  TrueWeight(sel, i * step)
                    * (EAbs(GridRight(name, sel, i * step, right_min))
                         + EAbs(GridLeft(name, sel, i * step, left_min)))], 1, n)

C15_LevelsRequestedInOrder ==
  [][(pc = "loop" /\ LoopCondition(engine, call.k) /\ pc' # "fault") =>
       /\ call.k <= engine.m_committed_refinements + 1
       /\ AccessorAssertHolds(engine', call.k)
       /\ engine'.m_committed_refinements <= engine.m_committed_refinements + 1
       /\ engine'.m_committed_refinements > engine.m_committed_refinements =>
            /\ engine'.m_committed_refinements = call.k
            /\ Len(AbscissaRow(engine, engine.m_committed_refinements)) > 0
            /\ Len(WeightRow(engine, engine.m_committed_refinements)) > 0]_vars

\* A call on a standard engine has asked for a level above the rows of the constructor,
\* and the accessor has extended the table to it.
C15_Witness ==
  /\ pc = "loop"
  /\ ~ub
  /\ engine.selector = 0
  /\ LastLevel >= 1
  /\ LastLevel > requested.initial_commit
  /\ engine.m_committed_refinements = LastLevel
  /\ Len(AbscissaRow(engine, LastLevel)) > 0

\* ------------------------------------------------------ non-finite estimates
\* C16: once the estimate of a call is not finite, behind level 0 or behind a later
\* level, the call invokes the integrand no more: no pass of the level loop starts from
\* an estimate that is not finite, and the calls of the level that ended in the report
\* were made from a finite estimate.
C16_NoCallsBehindNonFinite ==
  /\ (pc = "loop" /\ LoopCondition(engine, call.k)) => IsFinite(call.I1)
  /\ (pc = "reported" /\ call.fcalls # {}) => IsFinite(call.I0)

\* ------------------------------------------------------ positions and indices
\* C17: in a call whose level-0 walk passes the two assertions, max_left_position and
\* max_right_position are at least 1 at level 0 and behind every later level, so that
\* position - 1 on std::size_t is the index below and not the largest value.
C17_PositionsStayPositive ==
  (WalkEndsOnComplement /\ pc \in {"loop", "exit", "returned", "reported", "aborted"}) =>
    /\ call.max_left_position >= 1
    /\ call.max_right_position >= 1
    /\ SizeSub(call.max_left_position, 1) = call.max_left_position - 1
    /\ SizeSub(call.max_right_position, 1) = call.max_right_position - 1

\* A call under thresholds of 1e-3 has returned behind level 3: its walk ended on
\* position 1, its index at level 1 was 0, and its position has doubled at every level.
C17_Witness ==
  /\ pc = "returned"
  /\ WalkEndsOnComplement
  /\ Walk(Row0, Len(Row0) - 1, call.right_min) = 1
  /\ Walk(Row0, Len(Row0) - 1, call.left_min) = 1
  /\ call.k >= 4
  /\ call.max_right_position >= 8
  /\ call.max_left_position >= 8
=============================================================================
